---------------------------- MODULE Spec2Model ----------------------------
(***************************************************************************)
(* Model of the PatientExtraction case-definition evaluation pipeline:     *)
(* the record selectors (record_selector.py), the record outputters       *)
(* (record_outputter.py) and the extraction driver with its own selection  *)
(* and output code (patient_extraction.py).                                *)
(*                                                                         *)
(* A Python dict is modelled as a sequence of <<key, value>> items in      *)
(* insertion order with distinct keys; a raised exception as a result      *)
(* whose exc field names it.  Dates are day numbers, values are integers.  *)
(* The free text of an association is read by no selector, restriction or  *)
(* outputter and is left out of the association records.                   *)
(***************************************************************************)
EXTENDS Integers, Sequences, FiniteSets, TLC

(* Bounds of the model. *)
MaxDate == 2
MaxVal == 1

Dates == 1..MaxDate
Vals == 0..MaxVal

(* The codes of the model, in ascending string order. *)
CodeOrder == <<"A", "B">>
Codes == {CodeOrder[i] : i \in 1..Len(CodeOrder)}

(* The numbers of associations of each code of a record, in insertion order;
   the record of no code is what is left when nothing is selected. *)
Shapes == {<<>>, <<1>>, <<2>>, <<3>>, <<1, 1>>, <<1, 2>>, <<2, 1>>}

Association == [Date : Dates, Val1 : Vals, Val2 : Vals]

(* Association lists as the flat file stores them: chronological. *)
IsChronological(s) == \A i \in 1..(Len(s) - 1) : s[i].Date <= s[i + 1].Date
AssocLists(associations, n) == {s \in [1..n -> associations] : IsChronological(s)}

(* ----------------------------- Python helpers ------------------------- *)
Range(s) == {s[i] : i \in 1..Len(s)}
Ok(v) == [exc |-> "none", val |-> v]
Raise(e) == [exc |-> e, val |-> <<>>]

DictKeys(d) == {d[i][1] : i \in 1..Len(d)}
DictGet(d, k) == d[CHOOSE i \in 1..Len(d) : d[i][1] = k][2]
IsDict(d) == \A i, j \in 1..Len(d) : d[i][1] = d[j][1] => i = j

(* min(items, key=...) and max(items, key=...) return the first item, in
   iteration order, whose key is minimal (maximal): its index, given the keys
   of the items in that order. *)
PyMin(keys) ==
    CHOOSE i \in 1..Len(keys) :
        /\ \A j \in 1..Len(keys) : keys[i] <= keys[j]
        /\ \A j \in 1..(i - 1) : keys[j] > keys[i]
PyMax(keys) ==
    CHOOSE i \in 1..Len(keys) :
        /\ \A j \in 1..Len(keys) : keys[i] >= keys[j]
        /\ \A j \in 1..(i - 1) : keys[j] < keys[i]

(* The records a patient's line of the flat file can hold: the dicts of the
   given shape whose associations are drawn from the given set. *)
RecordsOfShape(associations, sh) ==
    LET Items(n) == Codes \X AssocLists(associations, n)
    IN  CASE Len(sh) = 0 -> {<<>>}
          [] Len(sh) = 1 -> {r \in [1..1 -> Items(sh[1])] : IsDict(r)}
          [] Len(sh) = 2 -> {r \in Items(sh[1]) \X Items(sh[2]) : IsDict(r)}

(* The keys the selections compare, one per item of the dict or list. *)
FirstDates(records) == [n \in 1..Len(records) |-> records[n][2][1].Date]
LastDates(records) == [n \in 1..Len(records) |-> records[n][2][Len(records[n][2])].Date]
FirstValues(records) == [n \in 1..Len(records) |-> records[n][2][1].Val1]
ValuesOf(valType, associations) ==
    [n \in 1..Len(associations) |-> associations[n][valType]]
MaxOf(S) == CHOOSE m \in S : \A n \in S : n <= m
MinOf(S) == CHOOSE m \in S : \A n \in S : m <= n
LargestValues(valType, records) ==
    [n \in 1..Len(records) |-> MaxOf(Range(ValuesOf(valType, records[n][2])))]
SmallestValues(valType, records) ==
    [n \in 1..Len(records) |-> MinOf(Range(ValuesOf(valType, records[n][2])))]

(* --------------------------- record_selector.py ----------------------- *)
all_selector(records) == Ok(records)

earliest_selector(records) ==
    IF records = <<>> THEN Raise("ValueError")
    ELSE LET earliestRecord == records[PyMin(FirstDates(records))]
             earliestCode == earliestRecord[1]
             earliestAssociation == earliestRecord[2][1]
         IN  Ok(<<<<earliestCode, <<earliestAssociation>>>>>>)

(* latest_selector returning every association of the latest code. *)
latest_selector_WholeList(records) ==
    IF records = <<>> THEN Raise("ValueError")
    ELSE LET latestRecord == records[PyMax(LastDates(records))]
         IN  Ok(<<<<latestRecord[1], latestRecord[2]>>>>)

latest_selector(records) ==
    IF records = <<>> THEN Raise("ValueError")
    ELSE LET latestRecord == records[PyMax(LastDates(records))]
             latestCode == latestRecord[1]
             latestAssociation == latestRecord[2][Len(latestRecord[2])]
         IN  Ok(<<<<latestCode, <<latestAssociation>>>>>>)

max_selector(valType, records) ==
    IF records = <<>> THEN Raise("ValueError")
    ELSE LET maxRecord == records[PyMax(LargestValues(valType, records))]
             maxCode == maxRecord[1]
             maxAssociation == maxRecord[2][PyMax(ValuesOf(valType, maxRecord[2]))]
         IN  Ok(<<<<maxCode, <<maxAssociation>>>>>>)

min_selector(valType, records) ==
    IF records = <<>> THEN Raise("ValueError")
    ELSE LET minRecord == records[PyMin(SmallestValues(valType, records))]
             minCode == minRecord[1]
             minAssociation == minRecord[2][PyMin(ValuesOf(valType, minRecord[2]))]
         IN  Ok(<<<<minCode, <<minAssociation>>>>>>)

(* conf.init: the valid modes and the selector each names. *)
validModes == {"all", "earliest", "latest", "max1", "max2", "min1", "min2"}
selectionMap(mode, records) ==
    CASE mode = "all" -> all_selector(records)
      [] mode = "earliest" -> earliest_selector(records)
      [] mode = "latest" -> latest_selector(records)
      [] mode = "max1" -> max_selector("Val1", records)
      [] mode = "max2" -> max_selector("Val2", records)
      [] mode = "min1" -> min_selector("Val1", records)
      [] mode = "min2" -> min_selector("Val2", records)
      [] OTHER -> Raise("KeyError")

(* record_selector.select_associations: one reduced record per mode; the first
   selector that raises ends the call. *)
rs_select_associations(record, modeList) ==
    LET results == [m \in Range(modeList) |-> selectionMap(m, record)]
    IN  IF \E m \in Range(modeList) : results[m].exc # "none"
        THEN Raise((results[modeList[CHOOSE i \in 1..Len(modeList) :
                        /\ results[modeList[i]].exc # "none"
                        /\ \A j \in 1..(i - 1) : results[modeList[j]].exc = "none"]]).exc)
        ELSE Ok([m \in Range(modeList) |-> results[m].val])

(* --------------------------- record_outputter.py ---------------------- *)
(* "{:d}".format(n) *)
FormatInt(n) == ToString(n)
Digit(n) == ToString(n)
(* "{:.2f}".format(x) for x = h / 100, h a natural number of hundredths. *)
Format2f(h) == ToString(h \div 100) \o "." \o Digit((h % 100) \div 10) \o Digit(h % 10)
(* date.strftime("%Y-%m-%d"): day number d is the d-th day of January 2000. *)
strftime(d) == "2000-01-" \o Digit(d \div 10) \o Digit(d % 10)

(* [k for j in record.values() for k in j]: the associations of every code, in
   dict order. *)
RECURSIVE Flatten(_)
Flatten(record) ==
    IF record = <<>> THEN <<>> ELSE record[1][2] \o Flatten(Tail(record))

RECURSIVE SumSeq(_)
SumSeq(s) == IF s = <<>> THEN 0 ELSE s[1] + SumSeq(Tail(s))

(* sorted(values): ascending. *)
RECURSIVE SortAsc(_)
SortAsc(s) ==
    IF s = <<>> THEN <<>>
    ELSE LET i == CHOOSE i \in 1..Len(s) : \A j \in 1..Len(s) : s[i] <= s[j]
         IN  <<s[i]>> \o SortAsc(SubSeq(s, 1, i - 1) \o SubSeq(s, i + 1, Len(s)))

(* round(100 * n / d) for naturals n, d > 0 (no exact half occurs for d < 8). *)
Hundredths(n, d) == (200 * n + d) \div (2 * d)

code_outputter(record) ==
    IF record # <<>> THEN Ok(record[1][1]) ELSE Ok("")

count_outputter(record) ==
    IF record # <<>>
    THEN Ok(FormatInt(SumSeq([i \in 1..Len(record) |-> Len(record[i][2])])))
    ELSE Ok("0")

date_outputter(record) ==
    IF record # <<>> THEN Ok(strftime(record[1][2][1].Date)) ELSE Ok("")

exists_outputter(record) == IF record # <<>> THEN Ok("1") ELSE Ok("0")

max_outputter(valType, record) ==
    IF record # <<>>
    THEN LET associations == Flatten(record)
             maxAssociation == associations[PyMax(ValuesOf(valType, associations))]
         IN  Ok(Format2f(100 * maxAssociation[valType]))
    ELSE Ok("")

mean_outputter(valType, record) ==
    IF record # <<>>
    THEN LET associations == Flatten(record)
             associationValues == ValuesOf(valType, associations)
         IN  Ok(Format2f(Hundredths(SumSeq(associationValues), Len(associationValues))))
    ELSE Ok("")

(* The median taking the upper of the two middle values of an even number. *)
MedianOfValues_UpperMiddle(valType, record) ==
    LET associationValues == SortAsc(ValuesOf(valType, Flatten(record)))
        n == Len(associationValues)
        middleIndex == n \div 2
    IN  IF n = 0 THEN Format2f(0) ELSE Format2f(100 * associationValues[middleIndex + 1])

(* Lines 220-240: the median of the valType values of the record.  Of no value
   at all, middleIndex is 0 and the slice [-1:1] of the empty list sums to 0. *)
MedianOfValues(valType, record) ==
    LET associations == Flatten(record)
        associationValues ==
            SortAsc(ValuesOf(valType, associations))
        n == Len(associationValues)
        middleIndex == n \div 2
    IN  IF n = 1 THEN Format2f(100 * associationValues[1])
        ELSE IF n % 2 = 0
        THEN Format2f(Hundredths(
                 IF n = 0 THEN 0
                 ELSE SumSeq(SubSeq(associationValues, middleIndex, middleIndex + 1)), 2))
        ELSE Format2f(100 * associationValues[middleIndex + 1])

(* median_outputter without the test of line 219. *)
median_outputter_Unguarded(valType, record) == Ok(MedianOfValues(valType, record))

median_outputter(valType, record) ==
    IF record # <<>> THEN Ok(MedianOfValues(valType, record)) ELSE Ok("")

min_outputter(valType, record) ==
    IF record # <<>>
    THEN LET associations == Flatten(record)
             minAssociation == associations[PyMin(ValuesOf(valType, associations))]
         IN  Ok(Format2f(100 * minAssociation[valType]))
    ELSE Ok("")

value_outputter(valType, record) ==
    IF record # <<>> THEN Ok(Format2f(100 * record[1][2][1][valType])) ELSE Ok("")

(* conf.init: the valid outputs and the outputter each names. *)
validOutputs == {"code", "count", "date", "exists", "max1", "max2", "mean1", "mean2",
                 "median1", "median2", "min1", "min2", "val1", "val2"}
outputMap(out, record) ==
    CASE out = "code" -> code_outputter(record)
      [] out = "count" -> count_outputter(record)
      [] out = "date" -> date_outputter(record)
      [] out = "exists" -> exists_outputter(record)
      [] out = "max1" -> max_outputter("Val1", record)
      [] out = "max2" -> max_outputter("Val2", record)
      [] out = "mean1" -> mean_outputter("Val1", record)
      [] out = "mean2" -> mean_outputter("Val2", record)
      [] out = "median1" -> median_outputter("Val1", record)
      [] out = "median2" -> median_outputter("Val2", record)
      [] out = "min1" -> min_outputter("Val1", record)
      [] out = "min2" -> min_outputter("Val2", record)
      [] out = "val1" -> value_outputter("Val1", record)
      [] out = "val2" -> value_outputter("Val2", record)
      [] OTHER -> Raise("KeyError")

(* ------------------ restriction_comparator_generators.py --------------- *)
(* A comparator closure is the record of what it captured. *)
date_generator(startDate, endDate) ==
    [kind |-> "date", startDate |-> startDate, endDate |-> endDate]
(* date_comparator with the end date left out of the range. *)
date_comparator_EndExcluded(f, date) == f.startDate <= date /\ date < f.endDate

date_comparator(f, date) == f.startDate <= date /\ date <= f.endDate

(* operator.gt, operator.ge, operator.lt, operator.le *)
validOperators == {">", ">=", "<", "<="}
comparison(op, a, b) ==
    CASE op = ">" -> a > b
      [] op = ">=" -> a >= b
      [] op = "<" -> a < b
      [] op = "<=" -> a <= b

value_generator(comparatorValue, op) ==
    [kind |-> "value", comparatorValue |-> comparatorValue, comparison |-> op]
(* value_comparator with its operands the other way round. *)
value_comparator_Swapped(f, value) == comparison(f.comparison, f.comparatorValue, value)

value_comparator(f, value) == comparison(f.comparison, value, f.comparatorValue)

(* Calling a restriction closure j on a value. *)
Call(j, x) == IF j.kind = "date" THEN date_comparator(j, x) ELSE value_comparator(j, x)

(* ------------------ patient_extraction.select_associations ------------- *)
(* The comprehension of line 256 testing Val1 whatever the attribute. *)
RestrictBy_Val1Only(selectedRecords, i, j) ==
    [k \in 1..Len(selectedRecords) |->
        <<selectedRecords[k][1],
          SelectSeq(selectedRecords[k][2], LAMBDA l : Call(j, l["Val1"]))>>]

(* One pass of the comprehension of line 256: restriction j of attribute i. *)
RestrictBy(selectedRecords, i, j) ==
    [k \in 1..Len(selectedRecords) |->
        <<selectedRecords[k][1], SelectSeq(selectedRecords[k][2], LAMBDA l : Call(j, l[i]))>>]

RECURSIVE RestrictByList(_, _, _)
RestrictByList(selectedRecords, i, js) ==
    IF js = <<>> THEN selectedRecords
    ELSE RestrictByList(RestrictBy(selectedRecords, i, js[1]), i, Tail(js))

RECURSIVE RestrictByAll(_, _)
RestrictByAll(selectedRecords, conditionRestrictions) ==
    IF conditionRestrictions = <<>> THEN selectedRecords
    ELSE RestrictByAll(
             RestrictByList(selectedRecords, conditionRestrictions[1][1], conditionRestrictions[1][2]),
             Tail(conditionRestrictions))

(* {i: d[i] for i in d if d[i]} *)
DropEmpty(d) == SelectSeq(d, LAMBDA x : x[2] # <<>>)

(* Lines 247-260: the associations meeting every restriction, codes left with
   none removed. *)
RestrictedRecords(record, conditionRestrictions) ==
    DropEmpty(RestrictByAll(record, conditionRestrictions))

EmptyMap == [m \in {} |-> <<>>]
MapPut(f, k, v) == [m \in (DOMAIN f) \cup {k} |-> IF m = k THEN v ELSE f[m]]

(* Lines 262-308: the loop over the modes.  Each of earliest, latest, max and
   min reassigns selectedRecords, which the next mode then reads. *)
RECURSIVE ModeLoop(_, _, _)
ModeLoop(modeList, selectedRecords, modeSelectedRecords) ==
    IF modeList = <<>> THEN Ok(modeSelectedRecords)
    ELSE LET mode == modeList[1] IN
         IF mode \in {"earliest", "latest", "max", "min"}
         THEN IF selectedRecords = <<>> THEN Raise("ValueError")
              ELSE LET chosen ==
                           CASE mode = "earliest" ->
                                    selectedRecords[PyMin(FirstDates(selectedRecords))]
                             [] mode = "latest" ->
                                    selectedRecords[PyMax(LastDates(selectedRecords))]
                             [] mode = "max" ->
                                    selectedRecords[PyMax(FirstValues(selectedRecords))]
                             [] mode = "min" ->
                                    selectedRecords[PyMin(FirstValues(selectedRecords))]
                       reduced == <<<<chosen[1], <<chosen[2][1]>>>>>>
                   IN  ModeLoop(Tail(modeList), reduced, MapPut(modeSelectedRecords, mode, reduced))
         ELSE ModeLoop(Tail(modeList), selectedRecords,
                       MapPut(modeSelectedRecords, mode, selectedRecords))

select_associations(record, patientPosCondCodes, conditionRestrictions, modeList) ==
    ModeLoop(modeList, RestrictedRecords(record, conditionRestrictions), EmptyMap)

(* ------------------ patient_extraction.generate_patient_output --------- *)
(* The results of a sequence of steps: the first exception raised, or the
   concatenation of what the steps appended to the output. *)
RECURSIVE FlattenSeqs(_)
FlattenSeqs(ss) == IF ss = <<>> THEN <<>> ELSE ss[1] \o FlattenSeqs(Tail(ss))

Combine(results) ==
    IF \E n \in 1..Len(results) : results[n].exc # "none"
    THEN results[CHOOSE n \in 1..Len(results) :
                     /\ results[n].exc # "none"
                     /\ \A l \in 1..(n - 1) : results[l].exc = "none"]
    ELSE Ok(FlattenSeqs([n \in 1..Len(results) |-> results[n].val]))

(* ''.join(['\t' for ...]): n empty fields. *)
Blanks(n) == [k \in 1..n |-> ""]

(* Lines 169-199: the field of one output choice for a mode that selected
   something.  modeRecords is patientRecordSubset[i], keyed by mode. *)
OutField(out, modeRecords, mode) ==
    LET selected == modeRecords[mode]
        associations == Flatten(selected)
        code == selected[1][1]
    IN  CASE out = "count" ->
                 IF \A k \in DictKeys(selected) : k \in DOMAIN modeRecords
                 THEN Ok(<<FormatInt(SumSeq(
                          [n \in 1..Len(selected) |-> Len(modeRecords[selected[n][1]])]))>>)
                 ELSE Raise("KeyError")
          [] out = "max" ->
                 Ok(<<Format2f(100 * associations[PyMax(ValuesOf("Val1", associations))].Val1)>>)
          [] out = "mean" ->
                 Ok(<<Format2f(Hundredths(
                          SumSeq(ValuesOf("Val1", associations)),
                          Len(associations)))>>)
          [] out = "min" ->
                 Ok(<<Format2f(100 * associations[PyMin(ValuesOf("Val1", associations))].Val1)>>)
          [] out = "value" -> Ok(<<Format2f(100 * DictGet(selected, code)[1].Val1)>>)
          [] out = "date" -> Ok(<<strftime(DictGet(selected, code)[1].Date)>>)
          [] OTHER -> Ok(<<code>>)

(* Lines 165-202: the fields of one mode of a condition the patient has. *)
ModeFields(mode, outs, modeRecords) ==
    IF mode \in DOMAIN modeRecords
    THEN Combine([n \in 1..Len(outs) |-> OutField(outs[n], modeRecords, mode)])
    ELSE Ok(Blanks(Len(outs)))

(* Lines 162-205: the fields of one condition. *)
ConditionFields(i, patientRecordSubset, conditionData) ==
    IF i \in DOMAIN patientRecordSubset
    THEN Combine([n \in 1..Len(conditionData[i].Mode) |->
                     ModeFields(conditionData[i].Mode[n], conditionData[i].Out,
                                patientRecordSubset[i])])
    ELSE Ok(Blanks(Len(conditionData[i].Mode) * Len(conditionData[i].Out)))

generate_patient_output(patientID, patientRecordSubset, conditions, conditionData) ==
    Combine(<<Ok(<<patientID>>)>> \o
            [n \in 1..Len(conditions) |->
                ConditionFields(conditions[n], patientRecordSubset, conditionData)])

(* ------------------------ patient_extraction.main ---------------------- *)
(* Lines 91-96: the header, one name per condition, mode and output. *)
ColumnName(i, j, k) == i \o "__MODE:" \o j \o "__OUT:" \o k

ConditionColumns(i, conditionData) ==
    FlattenSeqs([m \in 1..Len(conditionData[i].Mode) |->
                    [o \in 1..Len(conditionData[i].Out) |->
                        <<i, conditionData[i].Mode[m], conditionData[i].Out[o]>>]])

(* The (condition, mode, output) triples in the order the header names them. *)
Columns(conditions, conditionData) ==
    FlattenSeqs([n \in 1..Len(conditions) |-> ConditionColumns(conditions[n], conditionData)])

Header(conditions, conditionData) ==
    LET columns == Columns(conditions, conditionData)
    IN  <<"PatientID">> \o
        [n \in 1..Len(columns) |-> ColumnName(columns[n][1], columns[n][2], columns[n][3])]

(* The test of line 120 without its negative codes. *)
HasCondition_IgnoresNegative(patientPosCondCodes, patientNegCondCodes) ==
    patientPosCondCodes # {}

(* Line 120: the patient has the condition. *)
HasCondition(patientPosCondCodes, patientNegCondCodes) ==
    patientPosCondCodes # {} /\ patientNegCondCodes = {}

(* Lines 112-132 for condition i: the call of select_associations, when made. *)
ConditionSelection(i, record, mapConditionToCode, conditionData) ==
    LET codesAssociatedWith == DictKeys(record)
        patientPosCondCodes == codesAssociatedWith \cap mapConditionToCode[i].Positive
        patientNegCondCodes == codesAssociatedWith \cap mapConditionToCode[i].Negative
    IN  IF HasCondition(patientPosCondCodes, patientNegCondCodes)
        THEN LET result == select_associations(record, patientPosCondCodes,
                               conditionData[i].Restrictions, conditionData[i].Mode)
             IN  IF result.exc # "none" THEN result
                 ELSE Ok([j \in {m \in DOMAIN result.val : result.val[m] # <<>>} |->
                             result.val[j]])
        ELSE Ok(EmptyMap)

(* Lines 104-132: patientRecordSubset, or the exception that ended the loop. *)
PatientRecordSubset(record, conditions, mapConditionToCode, conditionData) ==
    LET selections == [i \in Range(conditions) |->
                          ConditionSelection(i, record, mapConditionToCode, conditionData)]
    IN  IF \E n \in 1..Len(conditions) : selections[conditions[n]].exc # "none"
        THEN selections[conditions[CHOOSE n \in 1..Len(conditions) :
                 /\ selections[conditions[n]].exc # "none"
                 /\ \A l \in 1..(n - 1) : selections[conditions[l]].exc = "none"]]
        ELSE Ok([i \in {c \in Range(conditions) : selections[c].val # EmptyMap} |->
                    selections[i].val])

(* ------------------------- case-definition text ------------------------ *)
(* A line of a case-definition file, stripped, is a sequence of pieces:
     <<>>                       a blank line
     <<"#", c1, c2, ...>>       a header, the rest character by character
     <<">", chunk1, ...>>       a control line, the rest as line.split() cuts it
     <<"-", "A", ".", "%">>     any other line: an optional sign, a run of
                                letters and digits, full stops, an optional %
                                ("!" being a character a code cannot hold)
   and a code line of an annotated file is <<code, ".", ..., "\t", text>>. *)
RECURSIVE Join(_)
Join(pieces) == IF pieces = <<>> THEN "" ELSE pieces[1] \o Join(Tail(pieces))

(* re.sub("\s+", r, text) on a sequence of characters. *)
RECURSIVE SubWhitespace(_, _)
SubWhitespace(chars, r) ==
    IF chars = <<>> THEN <<>>
    ELSE IF chars[1] # " " THEN <<chars[1]>> \o SubWhitespace(Tail(chars), r)
    ELSE IF Len(chars) > 1 /\ chars[2] = " " THEN SubWhitespace(Tail(chars), r)
    ELSE <<r>> \o SubWhitespace(Tail(chars), r)

(* str.strip() on a sequence of characters. *)
RECURSIVE LStrip(_)
LStrip(chars) ==
    IF chars # <<>> /\ chars[1] = " " THEN LStrip(Tail(chars)) ELSE chars

(* str.lower() and str.capitalize() on the tokens of the model. *)
Lower(token) ==
    CASE token = "MODE" -> "mode"
      [] token = "ALL" -> "all"
      [] token = "TO" -> "to"
      [] token = "Val1" -> "val1"
      [] token = "Val2" -> "val2"
      [] OTHER -> token
Capitalize(token) ==
    CASE token = "val1" -> "Val1"
      [] token = "val2" -> "Val2"
      [] OTHER -> token

(* float(token): the number a token stands for, in tenths, or ValueError. *)
float(token) ==
    CASE token = "0" -> Ok(0)
      [] token = "1" -> Ok(10)
      [] token = "2" -> Ok(20)
      [] token = "2.5" -> Ok(25)
      [] token = "3" -> Ok(30)
      [] token = "4" -> Ok(40)
      [] token = "5" -> Ok(50)
      [] OTHER -> Raise("ValueError")
(* str.isdigit() *)
isdigit(token) == token \in {"0", "1", "2", "3", "4", "5"}

(* datetime.datetime.strptime(token, "%Y-%m-%d"): the day number of a date
   of January 2000, or ValueError. *)
strptime(token) ==
    CASE token = "2000-01-01" -> Ok(1)
      [] token = "2000-01-02" -> Ok(2)
      [] token = "2000-01-03" -> Ok(3)
      [] OTHER -> Raise("ValueError")

(* The file of code descriptions, and the codes of the model in the order
   sorted() puts them. *)
mapCodeToDescription == <<<<"A1", "first">>, <<"A2", "second">>, <<"B", "third">>>>
(* i[:len(code)] == code *)
HasPrefix(i, code) ==
    \/ code = ""
    \/ code = i
    \/ code = "A" /\ i \in {"A1", "A2"}
(* len(code) *)
CodeLen(code) == IF code \in {"A1", "A2"} THEN 2 ELSE IF code = "" THEN 0 ELSE 1

(* sorted(codes): the codes of a set in ascending order. *)
sorted(codes) == SelectSeq(<<"", "A", "A1", "A2", "B", "Z">>, LAMBDA c : c \in codes)

(* ------------------ annotate_case_definitions.main --------------------- *)
(* codeMatcher: "^-?[a-zA-Z0-9]*\.*%?$" on the pieces of a line. *)
codeMatcher(line) ==
    LET alnum == {"A", "A1", "A2", "B", "Z"}
        unsigned == IF line # <<>> /\ line[1] = "-" THEN Tail(line) ELSE line
        stemless == IF unsigned # <<>> /\ unsigned[1] \in alnum THEN Tail(unsigned) ELSE unsigned
        body == IF stemless # <<>> /\ stemless[Len(stemless)] = "%"
                THEN SubSeq(stemless, 1, Len(stemless) - 1) ELSE stemless
    IN  \A k \in 1..Len(body) : body[k] = "."

(* "{:.<5}\t{:s}\n".format(i, description) *)
CodeLine(i) ==
    LET description == IF i \in DictKeys(mapCodeToDescription)
                       THEN DictGet(mapCodeToDescription, i) ELSE "Code not recognised"
    IN  <<i>> \o [k \in 1..(5 - CodeLen(i)) |-> "."] \o <<"\t", description>>

(* The codes of the case definition that has just ended, lines 52-57 and
   297-302. *)
WriteCaseCodes(currentCaseCodes) ==
    LET caseDefCodes == sorted(currentCaseCodes.Positive \ currentCaseCodes.Negative)
    IN  [k \in 1..Len(caseDefCodes) |-> CodeLine(caseDefCodes[k])]

NoCaseCodes == [Negative |-> {}, Positive |-> {}]

(* translate turning round the operators of one character only. *)
translate_StrictOnly(op) ==
    CASE op = ">" -> "<"
      [] op = "<" -> ">"
      [] OTHER -> op

(* chunks[1].translate({ord('>'): '<', ord('<'): '>'}) *)
translate(op) ==
    CASE op = ">" -> "<"
      [] op = ">=" -> "<="
      [] op = "<" -> ">"
      [] op = "<=" -> ">="
      [] OTHER -> op

(* Lines 87-118: a mode or an out line, valid being the valid choices. *)
AnnotateChoices(chunks, valid) ==
    LET choices == Tail(chunks)
        invalid == SelectSeq(choices, LAMBDA i : i \notin valid)
    IN  IF invalid # <<>>
        THEN IF Len(invalid) < Len(choices)
             THEN << <<">", chunks[1]>> \o SelectSeq(choices, LAMBDA i : i \in valid) >>
             ELSE <<>>
        ELSE << <<">">> \o chunks >>

(* Lines 119-168: a date restriction. *)
AnnotateFrom(chunks) ==
    IF Len(chunks) = 2
    THEN IF strptime(chunks[2]).exc = "none" THEN << <<">">> \o chunks >> ELSE <<>>
    ELSE IF Len(chunks) = 4
    THEN IF chunks[3] # "to" THEN <<>>
         ELSE LET startDate == strptime(chunks[2])
                  endDate == strptime(chunks[4])
              IN  IF startDate.exc # "none" \/ endDate.exc # "none" THEN <<>>
                  ELSE IF endDate.val < startDate.val THEN <<>>
                  ELSE << <<">">> \o chunks >>
    ELSE <<>>

(* Lines 169-224: a value restriction that starts with its number. *)
AnnotateNumberFirst(chunks) ==
    IF Len(chunks) \in {3, 5}
    THEN LET formatError ==
                 \/ chunks[2] \notin validOperators
                 \/ chunks[3] \notin {"val1", "val2"}
                 \/ Len(chunks) = 5 /\ (chunks[4] \notin validOperators \/ float(chunks[5]).exc # "none")
             name == Capitalize(chunks[3])
         IN  IF formatError THEN <<>>
             ELSE << <<">", name, translate(chunks[2]), chunks[1]>> >> \o
                  (IF Len(chunks) = 5 THEN << <<">", name, chunks[4], chunks[5]>> >> ELSE <<>>)
    ELSE <<>>

(* Lines 225-254: a value restriction that starts with val1 or val2. *)
AnnotateNameFirst(chunks) ==
    IF Len(chunks) = 3
    THEN IF chunks[2] \notin validOperators \/ float(chunks[3]).exc # "none" THEN <<>>
         ELSE << <<">", Capitalize(chunks[1])>> \o Tail(chunks) >>
    ELSE <<>>

(* Lines 64-259: the lines a control line is annotated as. *)
AnnotateControl(line) ==
    LET chunks == [k \in 1..(Len(line) - 1) |-> Lower(line[k + 1])]
    IN  IF Len(chunks) = 0 THEN <<>>
        ELSE IF chunks[1] = "mode" THEN AnnotateChoices(chunks, validModes)
        ELSE IF chunks[1] = "out" THEN AnnotateChoices(chunks, validOutputs)
        ELSE IF chunks[1] = "from" THEN AnnotateFrom(chunks)
        ELSE IF float(chunks[1]).exc = "none" THEN AnnotateNumberFirst(chunks)
        ELSE IF chunks[1] \in {"val1", "val2"} THEN AnnotateNameFirst(chunks)
        ELSE <<>>

(* Lines 260-289: the codes of the current case definition after a code
   line. *)
AnnotateCode(line, currentCaseCodes) ==
    LET negated == line[1] = "-"
        unsigned == IF negated THEN Tail(line) ELSE line
        code == SelectSeq(unsigned, LAMBDA c : c # ".")
        percent == code # <<>> /\ code[Len(code)] = "%"
        stem == Join(IF percent THEN SubSeq(code, 1, Len(code) - 1) ELSE code)
        codeList == IF percent
                    THEN {i \in DictKeys(mapCodeToDescription) : HasPrefix(i, stem)}
                    ELSE {}
        added == IF codeList # {} THEN codeList ELSE {stem}
    IN  IF code = <<>> THEN currentCaseCodes
        ELSE IF negated
        THEN [currentCaseCodes EXCEPT !.Negative = @ \cup added]
        ELSE [currentCaseCodes EXCEPT !.Positive = @ \cup added]

(* One turn of the loop of lines 43-294: what is written and the codes of
   the current case definition afterwards. *)
annotate_line(line, currentCaseCodes) ==
    IF line = <<>>
    THEN [written |-> <<>>, codes |-> currentCaseCodes]
    ELSE IF line[1] = "#"
    THEN [written |-> WriteCaseCodes(currentCaseCodes) \o
                      << <<"#">> \o SubWhitespace(Tail(line), " ") >>,
          codes |-> NoCaseCodes]
    ELSE IF line[1] = ">"
    THEN [written |-> AnnotateControl(line), codes |-> currentCaseCodes]
    ELSE IF codeMatcher(line)
    THEN [written |-> <<>>, codes |-> AnnotateCode(line, currentCaseCodes)]
    ELSE [written |-> <<>>, codes |-> currentCaseCodes]

(* ------------------------ parse_conditions.main ------------------------ *)
(* datetime.datetime.now(): a day after every date of the model. *)
Now == 9

(* The value of the defaultdict of lines 51-54 for a key it has not got. *)
NewCaseDefinition ==
    [Modes |-> {}, Negative |-> {}, Outputs |-> {}, Positive |-> {},
     Restrictions |-> [Date |-> <<>>, v1 |-> <<>>, v2 |-> <<>>]]

(* caseDefinitions[key], and caseDefinitions with the value of key replaced:
   reading a key the defaultdict has not got inserts it. *)
CaseDefinition(caseDefinitions, key) ==
    IF key \in DictKeys(caseDefinitions) THEN DictGet(caseDefinitions, key)
    ELSE NewCaseDefinition
WithCaseDefinition(caseDefinitions, key, value) ==
    IF key \in DictKeys(caseDefinitions)
    THEN [k \in 1..Len(caseDefinitions) |->
            IF caseDefinitions[k][1] = key THEN <<key, value>> ELSE caseDefinitions[k]]
    ELSE Append(caseDefinitions, <<key, value>>)

(* The state of the parse: the exception that ended it, if any, and the
   three variables of lines 51-56. *)
ParseState(raised, caseDefinitions, caseDefsOrder, currentCaseDef) ==
    [raised |-> raised, caseDefinitions |-> caseDefinitions,
     caseDefsOrder |-> caseDefsOrder, currentCaseDef |-> currentCaseDef]

(* Lines 62-68: a header. *)
ParseHeader(line, parse) ==
    LET name == Join(SubWhitespace(SubSeq(line, 3, Len(line)), "_"))
    IN  ParseState("none", parse.caseDefinitions,
                   IF name \notin DictKeys(parse.caseDefinitions)
                   THEN Append(parse.caseDefsOrder, name) ELSE parse.caseDefsOrder,
                   name)

(* Lines 69-105: a control line. *)
ParseControl(line, parse) ==
    LET chunks == Tail(line)
        key == parse.currentCaseDef
        entry == CaseDefinition(parse.caseDefinitions, key)
        Stored(value) ==
            ParseState("none", WithCaseDefinition(parse.caseDefinitions, key, value),
                       parse.caseDefsOrder, key)
        Failed(exception) ==
            ParseState(exception, parse.caseDefinitions, parse.caseDefsOrder, key)
    IN  IF Len(chunks) = 0 THEN Failed("IndexError")
        ELSE IF chunks[1] = "mode"
        THEN Stored([entry EXCEPT !.Modes = @ \cup Range(Tail(chunks))])
        ELSE IF chunks[1] = "out"
        THEN Stored([entry EXCEPT !.Outputs = @ \cup Range(Tail(chunks))])
        ELSE IF chunks[1] = "from"
        THEN IF Len(chunks) < 2 THEN Failed("IndexError")
             ELSE IF strptime(chunks[2]).exc # "none" THEN Failed("ValueError")
             ELSE IF Len(chunks) = 2
             THEN Stored([entry EXCEPT !.Restrictions.Date =
                              Append(@, date_generator(strptime(chunks[2]).val, Now))])
             ELSE IF Len(chunks) < 4 THEN Failed("IndexError")
             ELSE IF strptime(chunks[4]).exc # "none" THEN Failed("ValueError")
             ELSE Stored([entry EXCEPT !.Restrictions.Date =
                              Append(@, date_generator(strptime(chunks[2]).val,
                                                       strptime(chunks[4]).val))])
        ELSE IF isdigit(chunks[1])
        THEN IF Len(chunks) < 2 THEN Failed("IndexError")
             ELSE IF chunks[2] \notin validOperators THEN Failed("KeyError")
             ELSE IF Len(chunks) < 3 THEN Failed("IndexError")
             ELSE IF chunks[3] \notin {"Date", "v1", "v2"} THEN Failed("KeyError")
             ELSE Stored([entry EXCEPT !.Restrictions[chunks[3]] =
                              Append(@, value_generator(float(chunks[1]).val, chunks[2]))])
        ELSE IF chunks[1] \in {"v1", "v2"}
        THEN IF Len(chunks) < 3 THEN Failed("IndexError")
             ELSE IF float(chunks[3]).exc # "none" THEN Failed("ValueError")
             ELSE IF chunks[2] \notin validOperators THEN Failed("KeyError")
             ELSE Stored([entry EXCEPT !.Restrictions[chunks[1]] =
                              Append(@, value_generator(float(chunks[3]).val, chunks[2]))])
        ELSE ParseState("none", parse.caseDefinitions, parse.caseDefsOrder, key)

(* Lines 106-120: a code. *)
ParseCode(line, parse) ==
    LET undotted == SelectSeq(line, LAMBDA c : c # ".")
        tabs == {k \in 1..Len(undotted) : undotted[k] = "\t"}
        code == IF tabs = {} THEN undotted
                ELSE SubSeq(undotted, 1, (CHOOSE k \in tabs : \A j \in tabs : k <= j) - 1)
        key == parse.currentCaseDef
        entry == CaseDefinition(parse.caseDefinitions, key)
    IN  IF code = <<>>
        THEN ParseState("IndexError", parse.caseDefinitions, parse.caseDefsOrder, key)
        ELSE ParseState("none",
                 WithCaseDefinition(parse.caseDefinitions, key,
                     IF code[1] = "-"
                     THEN [entry EXCEPT !.Negative = @ \cup {Join(Tail(code))}]
                     ELSE [entry EXCEPT !.Positive = @ \cup {Join(code)}]),
                 parse.caseDefsOrder, key)

(* One turn of the loop of lines 60-120. *)
parse_line(line, parse) ==
    IF line = <<>>
    THEN ParseState("IndexError", parse.caseDefinitions, parse.caseDefsOrder,
                    parse.currentCaseDef)
    ELSE IF line[1] = "#" THEN ParseHeader(line, parse)
    ELSE IF line[1] = ">" THEN ParseControl(line, parse)
    ELSE ParseCode(line, parse)

(* sorted() on the words of a mode or an out line. *)
sortedWords(words) ==
    SelectSeq(<<"MODE", "all", "bogus", "count", "earliest", "latest", "max1", "mode", "out">>,
              LAMBDA w : w \in words)

(* Lines 122-131: the modes and the outputs of a case definition as the
   lists that are returned. *)
WithDefaults(entry) ==
    [entry EXCEPT !.Modes = IF @ = {} THEN <<"all">> ELSE sortedWords(@),
                  !.Outputs = IF @ = {} THEN <<"count">> ELSE sortedWords(@)]

(* --------------------- conditon_code_mappings.main --------------------- *)
VALIDMODECHOICES == {"earliest", "latest", "all", "max", "min"}

(* for mode in "word": the characters of a valid mode, in order. *)
Chars(word) ==
    CASE word = "all" -> <<"a", "l", "l">>
      [] word = "earliest" -> <<"e", "a", "r", "l", "i", "e", "s", "t">>
      [] word = "latest" -> <<"l", "a", "t", "e", "s", "t">>
      [] word = "max" -> <<"m", "a", "x">>
      [] word = "min" -> <<"m", "i", "n">>

(* The output choices of the legacy entry point. *)
VALIDOUTPUTCHOICES == {"code", "count", "date", "max", "mean", "min", "value"}

(* The state of the loop of lines 69-201: the exception that ended it, if
   any, what the turn wrote to fileOutput, the three values returned, the
   current condition, and the variables startDate, endDate and value of main
   that the lambdas of lines 123 and 142-148 read when they are called. *)
MappingState(raised, written, conditionsFound, mapConditionToCode, conditionData,
             currentCondition, enclosing) ==
    [raised |-> raised, written |-> written, conditionsFound |-> conditionsFound,
     mapConditionToCode |-> mapConditionToCode, conditionData |-> conditionData,
     currentCondition |-> currentCondition, enclosing |-> enclosing]

NoEnclosing == [startDate |-> 0, endDate |-> 0, value |-> 0]

(* The function a lambda of lines 123 and 142-148 is when it is called. *)
BindClosure(f, enclosing) ==
    IF f.kind = "dateClosure" THEN date_generator(enclosing.startDate, enclosing.endDate)
    ELSE IF f.kind = "valueClosure" THEN value_generator(enclosing.value, f.comparison)
    ELSE f

(* Lines 70-79: a header. *)
MapHeader(line, m) ==
    LET name == Join(SubWhitespace(LStrip(Tail(line)), "_"))
    IN  MappingState("none", <<line>>, Append(m.conditionsFound, name), m.mapConditionToCode,
            MapPut(m.conditionData, name,
                   [Mode |-> Chars("all"), Out |-> <<"count">>,
                    Restrictions |-> <<<<"Date", <<>>>>, <<"Val1", <<>>>>>>]),
            name, m.enclosing)

(* conditionData[currentCondition]["Restrictions"][attribute].append(f) *)
AppendRestriction(data, attribute, f) ==
    [data EXCEPT !.Restrictions =
        [k \in 1..Len(@) |-> IF @[k][1] = attribute THEN <<attribute, Append(@[k][2], f)>>
                             ELSE @[k]]]

(* Lines 80-165: a control line.  The line is written before it is looked
   at. *)
MapControl(line, m) ==
    LET chunks == [k \in 1..(Len(line) - 1) |-> Lower(line[k + 1])]
        key == m.currentCondition
        known == key \in DOMAIN m.conditionData
        Kept(enclosing) ==
            MappingState("none", <<line>>, m.conditionsFound, m.mapConditionToCode,
                         m.conditionData, key, enclosing)
        Stored(data, enclosing) ==
            IF ~known
            THEN MappingState("KeyError", <<line>>, m.conditionsFound, m.mapConditionToCode,
                              m.conditionData, key, enclosing)
            ELSE MappingState("none", <<line>>, m.conditionsFound, m.mapConditionToCode,
                              MapPut(m.conditionData, key, data), key, enclosing)
        Failed(exception) ==
            MappingState(exception, <<line>>, m.conditionsFound, m.mapConditionToCode,
                         m.conditionData, key, m.enclosing)
        data == m.conditionData[key]
    IN  IF Len(chunks) = 0 THEN Kept(m.enclosing)
        ELSE IF chunks[1] = "mode"
        THEN IF Len(chunks) < 2 THEN Failed("IndexError")
             ELSE IF chunks[2] \notin VALIDMODECHOICES
             THEN Stored([data EXCEPT !.Mode = Chars("all")], m.enclosing)
             ELSE Stored([data EXCEPT !.Mode = Chars(chunks[2])], m.enclosing)
        ELSE IF chunks[1] = "out"
        THEN LET outChoices == Tail(chunks)
             IN  IF Range(outChoices) \ VALIDOUTPUTCHOICES # {}
                 THEN Stored([data EXCEPT !.Out = Range(outChoices) \cap VALIDOUTPUTCHOICES],
                             m.enclosing)
                 ELSE Stored([data EXCEPT !.Out = outChoices], m.enclosing)
        ELSE IF chunks[1] = "from"
        THEN IF Len(chunks) < 2 THEN Failed("IndexError")
             ELSE IF strptime(chunks[2]).exc # "none" THEN Failed("ValueError")
             ELSE IF Len(chunks) < 4
             THEN MappingState("IndexError", <<line>>, m.conditionsFound, m.mapConditionToCode,
                               m.conditionData, key,
                               [m.enclosing EXCEPT !.startDate = strptime(chunks[2]).val])
             ELSE IF strptime(chunks[4]).exc # "none"
             THEN MappingState("ValueError", <<line>>, m.conditionsFound, m.mapConditionToCode,
                               m.conditionData, key,
                               [m.enclosing EXCEPT !.startDate = strptime(chunks[2]).val])
             ELSE LET bound == [m.enclosing EXCEPT !.startDate = strptime(chunks[2]).val,
                                                   !.endDate = strptime(chunks[4]).val]
                  IN  IF bound.endDate < bound.startDate THEN Kept(bound)
                      ELSE Stored(AppendRestriction(data, "Date", [kind |-> "dateClosure"]),
                                  bound)
        ELSE IF chunks[1] = "value"
        THEN IF Len(chunks) # 3 THEN Kept(m.enclosing)
             ELSE IF float(chunks[3]).exc # "none" THEN Kept(m.enclosing)
             ELSE Stored(AppendRestriction(data, "Val1",
                             IF chunks[2] \in {"<", "<=", ">", ">="}
                             THEN [kind |-> "valueClosure", comparison |-> chunks[2]]
                             ELSE [kind |-> "None"]),
                         [m.enclosing EXCEPT !.value = float(chunks[3]).val])
        ELSE Kept(m.enclosing)

(* "{0:s}{1:.<5}\t{2:s}\n".format(negationIndicator, i, description) *)
SignedCodeLine(negationIndicator, i) ==
    (IF negationIndicator = "-" THEN <<"-">> ELSE <<>>) \o CodeLine(i) \o <<"\n">>

(* Lines 166-201: a code. *)
MapCode(line, m) ==
    LET stripped == SelectSeq(line, LAMBDA c : c # ".")
        isNegativeCode == stripped # <<>> /\ stripped[1] = "-"
        code == IF isNegativeCode THEN Tail(stripped) ELSE stripped
        percent == code[Len(code)] = "%"
        stem == Join(IF percent THEN SubSeq(code, 1, Len(code) - 1) ELSE code)
        codeList == IF percent
                    THEN {i \in DictKeys(mapCodeToDescription) : HasPrefix(i, stem)}
                    ELSE {stem}
        key == m.currentCondition
        codes == IF key \in DOMAIN m.mapConditionToCode THEN m.mapConditionToCode[key]
                 ELSE [Positive |-> {}, Negative |-> {}]
        order == IF percent
                 THEN SelectSeq([k \in 1..Len(mapCodeToDescription) |->
                                    mapCodeToDescription[k][1]],
                                LAMBDA i : i \in codeList)
                 ELSE <<stem>>
    IN  IF code = <<>>
        THEN MappingState("IndexError", <<>>, m.conditionsFound, m.mapConditionToCode,
                          m.conditionData, key, m.enclosing)
        ELSE MappingState("none",
                 [k \in 1..Len(order) |->
                     SignedCodeLine(IF isNegativeCode THEN "-" ELSE "", order[k])],
                 m.conditionsFound,
                 IF codeList = {} THEN m.mapConditionToCode
                 ELSE MapPut(m.mapConditionToCode, key,
                             IF isNegativeCode
                             THEN [codes EXCEPT !.Negative = @ \cup codeList]
                             ELSE [codes EXCEPT !.Positive = @ \cup codeList]),
                 m.conditionData, key, m.enclosing)

(* One turn of the loop of lines 66-201. *)
map_line(line, m) ==
    IF line = <<>>
    THEN MappingState("none", <<>>, m.conditionsFound, m.mapConditionToCode, m.conditionData,
                      m.currentCondition, m.enclosing)
    ELSE IF line[1] = "#" THEN MapHeader(line, m)
    ELSE IF line[1] = ">" THEN MapControl(line, m)
    ELSE MapCode(line, m)

(* ------------------------------- state --------------------------------- *)
VARIABLES
    pc,                     \* position of the modelled call
    medicalRecord,          \* the patient's medical record
    modes,                  \* the modes requested
    modeMedicalRecords,     \* result of record_selector.select_associations
    record,                 \* the reduced record handed to an outputter
    outputName,             \* the output method applied to it
    outputValue,            \* what the outputter returned
    conditionRestrictions,  \* restrictions handed to patient_extraction.select_associations
    selectedRecords,        \* its selectedRecords after line 260
    modeSelectedRecords,    \* what it returned
    conditionsFound,        \* the conditions, in file order
    mapConditionToCode,     \* condition -> positive and negative codes
    conditionData,          \* condition -> Mode, Out, Restrictions
    header,                 \* the header line of ExtractedData.tsv, as fields
    patientRecordSubset,    \* main's patientRecordSubset for the last patient
    generatedOutput,        \* the last patient's row, as fields, or the exception
    comparator,             \* the closure a comparator generator returned
    tested,                 \* the date or value the closure was called on
    accepted,               \* what the call returned
    fileLines,              \* the lines of the case-definition file, stripped
    lineNum,                \* how many lines of the file being read are done
    annotated,              \* what has been written to the annotated file
    currentCaseCodes,       \* the annotator's codes of the current case definition
    raised,                 \* the exception that ended the reading, or "none"
    caseDefinitions,        \* the parser's case definitions, in insertion order
    caseDefsOrder,          \* the parser's list of case-definition names
    currentCaseDef,         \* the parser's current case definition
    currentCondition,       \* conditon_code_mappings' current condition
    enclosing,              \* its startDate, endDate and value
    heap,                   \* the interpreter's dicts and lists, by address
    caseNum,                \* how many conditions of the patient are done
    journal,                \* the insert rows of journal.sql
    rowNum,                 \* how many of them are done
    currentPatient,         \* generate_flat_files' current patient
    patientData,            \* its data for the current patient
    filePatientData         \* the lines written to PatientData.tsv

selectorVars == <<modeMedicalRecords>>
outputterVars == <<record, outputName, outputValue>>
selectVars == <<conditionRestrictions, selectedRecords, modeSelectedRecords>>
ruleVars == <<conditionsFound, mapConditionToCode, conditionData>>
driverVars == <<header, patientRecordSubset, generatedOutput>>
comparatorVars == <<comparator, tested, accepted>>
fileVars == <<fileLines, lineNum, annotated, currentCaseCodes, raised, caseDefinitions,
             caseDefsOrder, currentCaseDef, currentCondition, enclosing>>
heapVars == <<heap, caseNum>>
generatorVars == <<journal, rowNum, currentPatient, patientData, filePatientData>>
textVars == <<comparatorVars, fileVars, heapVars, generatorVars>>
vars == <<pc, medicalRecord, modes, selectorVars, outputterVars, selectVars, ruleVars,
          driverVars, textVars>>

(* The parts of the state a specification does not use. *)
IdleSelector == modeMedicalRecords = Ok(<<>>)
IdleOutputter == record = <<>> /\ outputName = "none" /\ outputValue = Ok("")
IdleSelect ==
    /\ conditionRestrictions = <<>>
    /\ selectedRecords = <<>>
    /\ modeSelectedRecords = Ok(EmptyMap)
IdleRules ==
    /\ conditionsFound = <<>>
    /\ mapConditionToCode = EmptyMap
    /\ conditionData = EmptyMap
IdleDriver ==
    /\ header = <<>>
    /\ patientRecordSubset = Ok(EmptyMap)
    /\ generatedOutput = Ok(<<>>)
NoComparator == [kind |-> "none"]
IdleComparator ==
    /\ comparator = NoComparator
    /\ tested = 0
    /\ accepted = FALSE
IdleFiles ==
    /\ fileLines = <<>>
    /\ lineNum = 0
    /\ annotated = <<>>
    /\ currentCaseCodes = NoCaseCodes
    /\ raised = "none"
    /\ caseDefinitions = <<>>
    /\ caseDefsOrder = <<>>
    /\ currentCaseDef = ""
    /\ currentCondition = ""
    /\ enclosing = NoEnclosing
IdleHeap == heap = <<>> /\ caseNum = 0
IdleGenerator ==
    /\ journal = <<>>
    /\ rowNum = 0
    /\ currentPatient = "None"
    /\ patientData = <<>>
    /\ filePatientData = <<>>
IdleText == IdleComparator /\ IdleFiles /\ IdleHeap /\ IdleGenerator

(* ------------------- record_selector.py as a state machine ------------- *)
(* The mode lists handed to record_selector.select_associations. *)
AllModes == <<"all", "earliest", "latest", "max1", "max2", "min1", "min2">>
SelectorModeLists == {<<m>> : m \in validModes} \cup {AllModes}

(* The record handed over is a patient's record, or what is left of one:
   possibly nothing. *)
InitSelector ==
    /\ pc = "loaded"
    /\ \E sh \in Shapes : medicalRecord \in RecordsOfShape(Association, sh)
    /\ modes = <<>>
    /\ IdleSelector /\ IdleOutputter /\ IdleSelect /\ IdleRules /\ IdleDriver
    /\ IdleText

SelectByModes ==
    /\ pc = "loaded"
    /\ \E ms \in SelectorModeLists :
        /\ modes' = ms
        /\ modeMedicalRecords' = rs_select_associations(medicalRecord, ms)
    /\ pc' = "selected"
    /\ UNCHANGED <<medicalRecord, outputterVars, selectVars, ruleVars, driverVars, textVars>>

NextSelector == SelectByModes

SpecSelector == InitSelector /\ [][NextSelector]_vars

(* ------------------- record_outputter.py as a state machine ------------ *)
(* A reduced record is a selection from a patient's record, or is empty when
   nothing was selected.  The records of four and five associations have them
   on one day, with Val2 = 0. *)
SameDayAssociation == [Date : {1}, Val1 : Vals, Val2 : {0}]
LongShapes == {<<4>>, <<5>>, <<2, 2>>}

InitOutputter ==
    /\ pc = "reduced"
    /\ \/ \E sh \in Shapes : record \in RecordsOfShape(Association, sh)
       \/ \E sh \in LongShapes : record \in RecordsOfShape(SameDayAssociation, sh)
    /\ outputName = "none"
    /\ outputValue = Ok("")
    /\ medicalRecord = <<>>
    /\ modes = <<>>
    /\ IdleSelector /\ IdleSelect /\ IdleRules /\ IdleDriver /\ IdleText

ApplyOutputter ==
    /\ pc = "reduced"
    /\ \E out \in validOutputs :
        /\ outputName' = out
        /\ outputValue' = outputMap(out, record)
    /\ pc' = "output"
    /\ UNCHANGED <<record, medicalRecord, modes, selectorVars, selectVars, ruleVars,
                   driverVars, textVars>>

NextOutputter == ApplyOutputter

SpecOutputter == InitOutputter /\ [][NextOutputter]_vars

(* ----------- patient_extraction.select_associations as a state machine -- *)
(* Sequences over S of length at most 2. *)
SeqsUpTo2(S) == {<<>>} \cup {<<x>> : x \in S} \cup {<<x, y>> : x \in S, y \in S}

(* A range whose end is before its start is rejected when the case definitions
   are read and never reaches the selection. *)
DateRestrictions ==
    {date_generator(range[1], range[2]) :
         range \in {r \in Dates \X Dates : r[1] <= r[2]}}
ValueRestrictions == {value_generator(v, op) : v \in 1..MaxVal, op \in validOperators}

(* The restrictions of a condition: at most two in all and at most one on
   each of Val1 and Val2, each under the attribute it tests. *)
TaggedRestrictions ==
    {<<"Date", f>> : f \in DateRestrictions} \cup
    {<<"Val1", f>> : f \in ValueRestrictions} \cup
    {<<"Val2", f>> : f \in ValueRestrictions}
Under(attribute, tagged) ==
    LET mine == SelectSeq(tagged, LAMBDA t : t[1] = attribute)
    IN  [n \in 1..Len(mine) |-> mine[n][2]]
RestrictionSets ==
    {<<<<"Date", Under("Date", t)>>, <<"Val1", Under("Val1", t)>>,
       <<"Val2", Under("Val2", t)>>>> :
         t \in {u \in SeqsUpTo2(TaggedRestrictions) :
                    Len(Under("Val1", u)) < 2 /\ Len(Under("Val2", u)) < 2}}

(* The modes handed to select_associations: a list of one valid mode, of two
   in either order, or the string main hands over, iterated character by
   character. *)
ModeLists ==
    {<<m>> : m \in VALIDMODECHOICES} \cup
    {<<"earliest", "all">>, <<"all", "earliest">>, Chars("all")}

(* Records of at most two associations. *)
SmallShapes == {<<1>>, <<2>>, <<1, 1>>}

InitSelect ==
    /\ pc = "loaded"
    /\ \E sh \in SmallShapes : medicalRecord \in RecordsOfShape(Association, sh)
    /\ modes = <<>>
    /\ IdleSelector /\ IdleOutputter /\ IdleSelect /\ IdleRules /\ IdleDriver
    /\ IdleText

SelectAssociations ==
    /\ pc = "loaded"
    /\ \E r \in RestrictionSets, ms \in ModeLists :
        /\ conditionRestrictions' = r
        /\ modes' = ms
        /\ selectedRecords' = RestrictedRecords(medicalRecord, r)
        /\ modeSelectedRecords' =
               select_associations(medicalRecord, DictKeys(medicalRecord), r, ms)
    /\ pc' = "selected"
    /\ UNCHANGED <<medicalRecord, selectorVars, outputterVars, ruleVars, driverVars, textVars>>

NextSelect == SelectAssociations

SpecSelect == InitSelect /\ [][NextSelect]_vars

(* ------------------ patient_extraction.main as a state machine --------- *)
(* The output lists of a condition: each valid output alone, some pairs, and
   the empty list a ">out" line of invalid choices alone leaves. *)
OutLists ==
    {<<o>> : o \in VALIDOUTPUTCHOICES} \cup
    {<<"date", "code">>, <<"count", "max">>, <<"value", "mean">>, <<>>}

(* The restrictions conditon_code_mappings builds have a Date and a Val1 list. *)
DriverRestrictionSets ==
    {<<<<"Date", <<>>>>, <<"Val1", <<>>>>>>,
     <<<<"Date", <<date_generator(MaxDate, MaxDate)>>>>, <<"Val1", <<>>>>>>,
     <<<<"Date", <<>>>>, <<"Val1", <<value_generator(MaxVal, ">=")>>>>>>}

(* The conditions of the model: K1, drawn from every combination of the choices
   above, alone, before or after the fixed condition K2. *)
ConditionOrders == {<<"K1">>, <<"K1", "K2">>, <<"K2", "K1">>}
K1Codes == [Positive : {{"A"}}, Negative : {{}, {"B"}}]
K2Codes == [Positive |-> {"B"}, Negative |-> {}]
(* conditon_code_mappings stores the Mode of a condition as the string of the
   ">mode" line ("all" without one), never as a list. *)
StoredModes == {Chars(m) : m \in VALIDMODECHOICES}
K1Data == [Mode : StoredModes, Out : OutLists, Restrictions : DriverRestrictionSets]
K2Data == [Mode |-> Chars("all"), Out |-> <<"date", "code">>,
           Restrictions |-> <<<<"Date", <<>>>>, <<"Val1", <<>>>>>>]

(* The driver reads Date and Val1 only: the associations of the model have
   Val2 = 0. *)
DriverAssociation == [Date : Dates, Val1 : Vals, Val2 : {0}]

Init ==
    /\ pc = "start"
    /\ conditionsFound \in ConditionOrders
    /\ \E codes \in K1Codes, data \in K1Data :
        /\ mapConditionToCode =
               [i \in Range(conditionsFound) |-> IF i = "K1" THEN codes ELSE K2Codes]
        /\ conditionData =
               [i \in Range(conditionsFound) |-> IF i = "K1" THEN data ELSE K2Data]
    /\ medicalRecord = <<>>
    /\ modes = <<>>
    /\ IdleSelector /\ IdleOutputter /\ IdleSelect /\ IdleDriver /\ IdleText

(* Lines 89-97: the header is written once, before any patient is read. *)
WriteHeader ==
    /\ pc = "start"
    /\ header' = Header(conditionsFound, conditionData)
    /\ pc' = "header"
    /\ UNCHANGED <<medicalRecord, modes, selectorVars, outputterVars, selectVars, ruleVars,
                   patientRecordSubset, generatedOutput, textVars>>

(* Lines 99-138: the line of a patient in the patient data file (no state is
   carried from one line to the next: the model follows one line).  An
   exception raised while the line is processed ends the run with no row
   written for it. *)
ProcessPatient ==
    /\ pc = "header"
    /\ \E sh \in SmallShapes : \E r \in RecordsOfShape(DriverAssociation, sh) :
        LET subset == PatientRecordSubset(r, conditionsFound, mapConditionToCode, conditionData)
            output == IF subset.exc # "none" THEN subset
                      ELSE generate_patient_output("P1", subset.val, conditionsFound,
                                                   conditionData)
        IN  /\ medicalRecord' = r
            /\ patientRecordSubset' = subset
            /\ generatedOutput' = output
            /\ pc' = IF output.exc # "none" THEN "crashed" ELSE "row"
    /\ UNCHANGED <<modes, selectorVars, outputterVars, selectVars, ruleVars, header,
                   textVars>>

Next == WriteHeader \/ ProcessPatient

Spec == Init /\ [][Next]_vars

(* --------- restriction_comparator_generators.py as a state machine ------ *)
(* The dates and values the generators and their closures are given. *)
MaxOperand == 5
Operands == 0..MaxOperand

InitComparator ==
    /\ pc = "start"
    /\ medicalRecord = <<>>
    /\ modes = <<>>
    /\ IdleSelector /\ IdleOutputter /\ IdleSelect /\ IdleRules /\ IdleDriver
    /\ IdleText

(* date_generator(startDate, endDate)(date) *)
CompareDate ==
    /\ pc = "start"
    /\ \E startDate \in Operands, endDate \in Operands, date \in Operands :
        LET f == date_generator(startDate, endDate)
        IN  /\ comparator' = f
            /\ tested' = date
            /\ accepted' = date_comparator(f, date)
    /\ pc' = "compared"
    /\ UNCHANGED <<medicalRecord, modes, selectorVars, outputterVars, selectVars, ruleVars,
                   driverVars, fileVars, heapVars, generatorVars>>

(* value_generator(comparatorValue, comparison)(value) *)
CompareValue ==
    /\ pc = "start"
    /\ \E comparatorValue \in Operands, op \in validOperators, value \in Operands :
        LET f == value_generator(comparatorValue, op)
        IN  /\ comparator' = f
            /\ tested' = value
            /\ accepted' = value_comparator(f, value)
    /\ pc' = "compared"
    /\ UNCHANGED <<medicalRecord, modes, selectorVars, outputterVars, selectVars, ruleVars,
                   driverVars, fileVars, heapVars, generatorVars>>

NextComparator == CompareDate \/ CompareValue

SpecComparator == InitComparator /\ [][NextComparator]_vars

(* ------------------- the case-definition files of the model ------------ *)
MaxLines == 3

(* Two headers, a positive and a negative code: lines of every file. *)
BaseLines == {<<"#", " ", "K", "1">>, <<"#", " ", "K", "2">>, <<"A1">>, <<"-", "B">>}
(* The lines a file has besides:
     headers with no space after the #, with a run of spaces, with no name,
       and a blank line;
     mode and out lines whose choices are valid, partly valid, invalid,
       absent, and a control line of nothing;
     date restrictions in order, of one day, reversed, with a month 13, with
       a word that is not "to", with three and with two chunks;
     value restrictions in the formats of the three readers;
     codes to expand, with and without a match, with full stops, with a
       character no code has, and a sign alone. *)
Themes ==
    {{<<"#", "K", "1">>, <<"#", " ", "K", " ", " ", "1">>, <<"#">>, <<>>},
     {<<">", "mode", "all">>, <<">", "MODE", "earliest", "bogus">>, <<">", "mode", "bogus">>,
      <<">", "mode">>, <<">", "out", "count", "max1">>, <<">", "out", "bogus">>, <<">">>},
     {<<">", "from", "2000-01-01", "to", "2000-01-02">>,
      <<">", "from", "2000-01-02", "to", "2000-01-02">>,
      <<">", "from", "2000-01-02", "to", "2000-01-01">>,
      <<">", "from", "2000-13-01", "to", "2000-01-02">>,
      <<">", "from", "2000-01-01", "until", "2000-01-02">>,
      <<">", "from", "2000-01-01", "2000-01-02">>,
      <<">", "from", "2000-01-02">>},
     {<<">", "3", "<", "v1">>, <<">", "2", ">=", "v2">>, <<">", "3", "<", "val1">>,
      <<">", "v1", ">", "3">>, <<">", "Val1", ">=", "2">>,
      <<">", "1", "<=", "val2", "<", "3">>, <<">", "2.5", "<", "val1">>,
      <<">", "4", ">=", "Val2">>, <<">", "value", ">", "3">>},
     {<<"A", "%">>, <<"Z", "%">>, <<"-", "A", "%">>, <<"-", "Z", "%">>,
      <<"A1", ".", ".">>, <<"A", "!">>, <<"-">>, <<"Z">>}}

(* The lines of a file whose writes are given: what is between two "\n",
   and what follows the last. *)
RECURSIVE SplitLines(_, _)
SplitLines(pieces, current) ==
    IF pieces = <<>> THEN (IF current = <<>> THEN <<>> ELSE <<current>>)
    ELSE IF pieces[1] = "\n" THEN <<current>> \o SplitLines(Tail(pieces), <<>>)
    ELSE SplitLines(Tail(pieces), Append(current, pieces[1]))
Lines(writes) == SplitLines(FlattenSeqs(writes), <<>>)

(* file.write("...\n") for each of the lines given. *)
WriteLines(lines) == [k \in 1..Len(lines) |-> lines[k] \o <<"\n">>]

(* ------------ annotate_case_definitions.main as a state machine --------- *)
InitAnnotator ==
    /\ pc = "annotating"
    /\ \E theme \in Themes, n \in 0..MaxLines : fileLines \in [1..n -> BaseLines \cup theme]
    /\ lineNum = 0
    /\ annotated = <<>>
    /\ currentCaseCodes = NoCaseCodes
    /\ raised = "none"
    /\ caseDefinitions = <<>>
    /\ caseDefsOrder = <<>>
    /\ currentCaseDef = ""
    /\ currentCondition = ""
    /\ enclosing = NoEnclosing
    /\ medicalRecord = <<>>
    /\ modes = <<>>
    /\ IdleSelector /\ IdleOutputter /\ IdleSelect /\ IdleRules /\ IdleDriver
    /\ IdleComparator /\ IdleHeap /\ IdleGenerator

(* Lines 43-294: one line of the file. *)
AnnotateLine ==
    /\ pc = "annotating"
    /\ lineNum < Len(fileLines)
    /\ LET turn == annotate_line(fileLines[lineNum + 1], currentCaseCodes)
       IN  /\ annotated' = annotated \o WriteLines(turn.written)
           /\ currentCaseCodes' = turn.codes
    /\ lineNum' = lineNum + 1
    /\ UNCHANGED <<pc, medicalRecord, modes, selectorVars, outputterVars, selectVars, ruleVars,
                   driverVars, comparatorVars, heapVars, generatorVars,
                   fileLines, raised, caseDefinitions,
                   caseDefsOrder, currentCaseDef, currentCondition, enclosing>>

(* Lines 296-302: the codes of the last case definition, at the end of the
   file. *)
AnnotateEnd ==
    /\ pc = "annotating"
    /\ lineNum = Len(fileLines)
    /\ annotated' = annotated \o WriteLines(WriteCaseCodes(currentCaseCodes))
    /\ pc' = "annotated"
    /\ UNCHANGED <<medicalRecord, modes, selectorVars, outputterVars, selectVars, ruleVars,
                   driverVars, comparatorVars, heapVars, generatorVars,
                   fileLines, lineNum, currentCaseCodes, raised,
                   caseDefinitions, caseDefsOrder, currentCaseDef, currentCondition,
                   enclosing>>

(* ---------------- parse_conditions.main as a state machine -------------- *)
(* Lines 51-59: the variables of the parse, and the annotated file opened. *)
ParseStart ==
    /\ pc = "annotated"
    /\ caseDefinitions' = <<>>
    /\ caseDefsOrder' = <<>>
    /\ currentCaseDef' = ""
    /\ lineNum' = 0
    /\ pc' = "parsing"
    /\ UNCHANGED <<medicalRecord, modes, selectorVars, outputterVars, selectVars, ruleVars,
                   driverVars, comparatorVars, heapVars, generatorVars,
                   fileLines, annotated, currentCaseCodes, raised,
                   currentCondition, enclosing>>

(* Lines 60-120: one line of the file; an exception ends the parse. *)
ParseLine ==
    /\ pc = "parsing"
    /\ lineNum < Len(Lines(annotated))
    /\ LET turn == parse_line(Lines(annotated)[lineNum + 1],
                              ParseState("none", caseDefinitions, caseDefsOrder,
                                         currentCaseDef))
       IN  /\ raised' = turn.raised
           /\ caseDefinitions' = turn.caseDefinitions
           /\ caseDefsOrder' = turn.caseDefsOrder
           /\ currentCaseDef' = turn.currentCaseDef
           /\ pc' = IF turn.raised # "none" THEN "parse crashed" ELSE "parsing"
    /\ lineNum' = lineNum + 1
    /\ UNCHANGED <<medicalRecord, modes, selectorVars, outputterVars, selectVars, ruleVars,
                   driverVars, comparatorVars, heapVars, generatorVars,
                   fileLines, annotated, currentCaseCodes,
                   currentCondition, enclosing>>

(* Lines 122-133: the defaults, and the return. *)
ParseEnd ==
    /\ pc = "parsing"
    /\ lineNum = Len(Lines(annotated))
    /\ caseDefinitions' =
           [k \in 1..Len(caseDefinitions) |->
               <<caseDefinitions[k][1], WithDefaults(caseDefinitions[k][2])>>]
    /\ pc' = "parsed"
    /\ UNCHANGED <<medicalRecord, modes, selectorVars, outputterVars, selectVars, ruleVars,
                   driverVars, comparatorVars, heapVars, generatorVars,
                   fileLines, lineNum, annotated, currentCaseCodes,
                   raised, caseDefsOrder, currentCaseDef, currentCondition, enclosing>>

NextParser == ParseStart \/ ParseLine \/ ParseEnd

(* The parser given a file of the model as it stands. *)
InitParser ==
    /\ pc = "annotated"
    /\ \E theme \in Themes, n \in 0..MaxLines :
        \E file \in [1..n -> BaseLines \cup theme] : annotated = WriteLines(file)
    /\ fileLines = <<>>
    /\ lineNum = 0
    /\ currentCaseCodes = NoCaseCodes
    /\ raised = "none"
    /\ caseDefinitions = <<>>
    /\ caseDefsOrder = <<>>
    /\ currentCaseDef = ""
    /\ currentCondition = ""
    /\ enclosing = NoEnclosing
    /\ medicalRecord = <<>>
    /\ modes = <<>>
    /\ IdleSelector /\ IdleOutputter /\ IdleSelect /\ IdleRules /\ IdleDriver
    /\ IdleComparator /\ IdleHeap /\ IdleGenerator

SpecParser == InitParser /\ [][NextParser]_vars

(* The annotator, then the parser on the file the annotator wrote. *)
NextDefinitions == AnnotateLine \/ AnnotateEnd \/ ParseStart \/ ParseLine \/ ParseEnd

SpecDefinitions == InitAnnotator /\ [][NextDefinitions]_vars

(* -------------- conditon_code_mappings.main as a state machine ---------- *)
InitMappings ==
    /\ pc = "mapping"
    /\ \E theme \in Themes, n \in 0..MaxLines : fileLines \in [1..n -> BaseLines \cup theme]
    /\ lineNum = 0
    /\ annotated = <<>>
    /\ currentCaseCodes = NoCaseCodes
    /\ raised = "none"
    /\ caseDefinitions = <<>>
    /\ caseDefsOrder = <<>>
    /\ currentCaseDef = ""
    /\ currentCondition = ""
    /\ enclosing = NoEnclosing
    /\ medicalRecord = <<>>
    /\ modes = <<>>
    /\ IdleSelector /\ IdleOutputter /\ IdleSelect /\ IdleRules /\ IdleDriver
    /\ IdleComparator /\ IdleHeap /\ IdleGenerator

(* Lines 66-201: one line of the file; an exception ends the reading. *)
MapLine ==
    /\ pc = "mapping"
    /\ lineNum < Len(fileLines)
    /\ LET turn == map_line(fileLines[lineNum + 1],
                            MappingState("none", <<>>, conditionsFound, mapConditionToCode,
                                         conditionData, currentCondition, enclosing))
       IN  /\ raised' = turn.raised
           /\ annotated' = annotated \o turn.written
           /\ conditionsFound' = turn.conditionsFound
           /\ mapConditionToCode' = turn.mapConditionToCode
           /\ conditionData' = turn.conditionData
           /\ currentCondition' = turn.currentCondition
           /\ enclosing' = turn.enclosing
           /\ pc' = IF turn.raised # "none" THEN "crashed" ELSE "mapping"
    /\ lineNum' = lineNum + 1
    /\ UNCHANGED <<medicalRecord, modes, selectorVars, outputterVars, selectVars, driverVars,
                   comparatorVars, heapVars, generatorVars,
                   fileLines, currentCaseCodes, caseDefinitions, caseDefsOrder,
                   currentCaseDef>>

(* Line 203: the return at the end of the file. *)
MapEnd ==
    /\ pc = "mapping"
    /\ lineNum = Len(fileLines)
    /\ pc' = "mapped"
    /\ UNCHANGED <<medicalRecord, modes, selectorVars, outputterVars, selectVars, ruleVars,
                   driverVars, textVars>>

NextMappings == MapLine \/ MapEnd

SpecMappings == InitMappings /\ [][NextMappings]_vars

(* =============================== claims ================================ *)
(* ---- helpers of the driver claims ---- *)
(* The number of columns of a condition, and the position in the row of the
   field before its first column. *)
BlockLen(i) == Len(conditionData[i].Mode) * Len(conditionData[i].Out)
RECURSIVE BlockOffset(_)
BlockOffset(n) == IF n = 1 THEN 1 ELSE BlockOffset(n - 1) + BlockLen(conditionsFound[n - 1])

PatientCodes == DictKeys(medicalRecord)
HasPositive(i) == PatientCodes \cap mapConditionToCode[i].Positive # {}
HasNegative(i) == PatientCodes \cap mapConditionToCode[i].Negative # {}

(* C1: when the patient's record holds none of a condition's positive codes, or
   holds one of its negative codes, every field of that condition's columns
   in the patient's row is the empty string. *)
C1_NegativeCodeVeto ==
    pc = "row" =>
        \A n \in 1..Len(conditionsFound) :
            LET i == conditionsFound[n] IN
            (~HasPositive(i) \/ HasNegative(i)) =>
                /\ Len(generatedOutput.val) >= BlockOffset(n) + BlockLen(i)
                /\ \A k \in 1..BlockLen(i) : generatedOutput.val[BlockOffset(n) + k] = ""

(* A row was written for a patient who has a positive and a negative code of
   a condition that has columns. *)
C1_Witness ==
    /\ pc = "row"
    /\ \E n \in 1..Len(conditionsFound) :
        /\ HasPositive(conditionsFound[n])
        /\ HasNegative(conditionsFound[n])
        /\ BlockLen(conditionsFound[n]) > 0

(* The value of a (condition, mode, output) triple: blank when the condition
   does not apply or the mode selected nothing, else the output method's
   projection of the mode's selection (Val1 being the only value the driver
   reads). *)
TripleValue(column) ==
    LET i == column[1]
        mode == column[2]
        out == column[3]
        subset == patientRecordSubset.val
    IN  IF i \notin DOMAIN subset \/ mode \notin DOMAIN subset[i] THEN ""
        ELSE LET selected == subset[i][mode] IN
             CASE out = "count" -> count_outputter(selected).val
               [] out = "max" -> max_outputter("Val1", selected).val
               [] out = "mean" -> mean_outputter("Val1", selected).val
               [] out = "min" -> min_outputter("Val1", selected).val
               [] out = "value" -> value_outputter("Val1", selected).val
               [] out = "date" -> date_outputter(selected).val
               [] OTHER -> code_outputter(selected).val

(* C2: once the selections of a patient are made, the row written has as many
   fields as the header, and the field under each header name is the value of
   the (condition, mode, output) triple the name stands for. *)
C2_RowMatchesHeader ==
    (pc \in {"row", "crashed"} /\ patientRecordSubset.exc = "none") =>
        /\ generatedOutput.exc = "none"
        /\ Len(generatedOutput.val) = Len(header)
        /\ LET columns == Columns(conditionsFound, conditionData) IN
           \A p \in 1..Len(columns) : generatedOutput.val[p + 1] = TripleValue(columns[p])

(* ---- helpers of the selection claims ---- *)
(* The association meets every restriction of every attribute. *)
MeetsAll(l) ==
    \A a \in 1..Len(conditionRestrictions) :
        \A n \in 1..Len(conditionRestrictions[a][2]) :
            Call(conditionRestrictions[a][2][n], l[conditionRestrictions[a][1]])

(* C3: an association survives the restrictions exactly when it meets every
   restriction of every attribute, and a code survives exactly when one of
   its associations does. *)
C3_RestrictionFilter ==
    pc = "selected" =>
        /\ DictKeys(selectedRecords) \subseteq DictKeys(medicalRecord)
        /\ IsDict(selectedRecords)
        /\ \A c \in DictKeys(medicalRecord) :
            LET kept == SelectSeq(DictGet(medicalRecord, c), MeetsAll) IN
            /\ c \in DictKeys(selectedRecords) <=> kept # <<>>
            /\ c \in DictKeys(selectedRecords) => DictGet(selectedRecords, c) = kept

(* Restrictions on two attributes dropped one code whole and one association
   of another code. *)
C3_Witness ==
    /\ pc = "selected"
    /\ conditionRestrictions[1][2] # <<>>
    /\ conditionRestrictions[2][2] # <<>>
    /\ Len(medicalRecord) = 2
    /\ Len(selectedRecords) = 1
    /\ \E c \in DictKeys(medicalRecord) \ DictKeys(selectedRecords) :
           \E n \in 1..Len(DictGet(medicalRecord, c)) :
               /\ Call(conditionRestrictions[1][2][1], DictGet(medicalRecord, c)[n].Date)
               /\ ~Call(conditionRestrictions[2][2][1], DictGet(medicalRecord, c)[n].Val1)

(* C4: when no association survives the restrictions, the selection returns an
   empty map for every requested mode and raises nothing. *)
C4_EmptySurvivors ==
    (pc = "selected" /\ selectedRecords = <<>>) =>
        modeSelectedRecords = Ok([m \in Range(modes) |-> <<>>])

(* C5: the selection of each mode is what that mode selects when it is the
   only mode requested of the same record and restrictions. *)
C5_ModeIndependence ==
    (pc = "selected" /\ modeSelectedRecords.exc = "none") =>
        \A m \in Range(modes) :
            Ok([k \in {m} |-> modeSelectedRecords.val[m]]) =
                select_associations(medicalRecord, DictKeys(medicalRecord),
                                    conditionRestrictions, <<m>>)

(* ---- helpers of the selector claims ---- *)
AllAssociations(d) == UNION {Range(d[n][2]) : n \in 1..Len(d)}
First(l) == l[1]
Last(l) == l[Len(l)]
(* The smallest, in string order, of a set of codes. *)
CodeRank(c) == CHOOSE i \in 1..Len(CodeOrder) : CodeOrder[i] = c
SmallestCode(S) == CHOOSE c \in S : \A e \in S : CodeRank(c) <= CodeRank(e)
Selected(mode) == modeMedicalRecords.val[mode]

(* C6: earliest returns the first association of one code, its date the
   smallest of the record; of the codes whose first association has that
   date, the smallest code in string order. *)
C6_EarliestTieBreak ==
    (pc = "selected" /\ medicalRecord # <<>> /\ "earliest" \in Range(modes)) =>
        /\ modeMedicalRecords.exc = "none"
        /\ LET minDate == MinOf({l.Date : l \in AllAssociations(medicalRecord)})
               tied == {c \in DictKeys(medicalRecord) :
                           First(DictGet(medicalRecord, c)).Date = minDate}
               c == SmallestCode(tied)
           IN  Selected("earliest") = <<<<c, <<First(DictGet(medicalRecord, c))>>>>>>

(* C7: latest returns the last association of one code, its date the largest
   of the record; of the codes whose last association has that date, the
   smallest code in string order. *)
C7_LatestTieBreak ==
    (pc = "selected" /\ medicalRecord # <<>> /\ "latest" \in Range(modes)) =>
        /\ modeMedicalRecords.exc = "none"
        /\ LET maxDate == MaxOf({l.Date : l \in AllAssociations(medicalRecord)})
               tied == {c \in DictKeys(medicalRecord) :
                           Last(DictGet(medicalRecord, c)).Date = maxDate}
               c == SmallestCode(tied)
           IN  Selected("latest") = <<<<c, <<Last(DictGet(medicalRecord, c))>>>>>>

(* C8: max1 (max2) returns one association of one code whose Val1 (Val2) is
   the largest over every association of every code; of the codes that reach
   that value, the smallest code in string order. *)
MaxSelectionOk(mode, valType) ==
    LET maxValue == MaxOf({l[valType] : l \in AllAssociations(medicalRecord)})
        tied == {c \in DictKeys(medicalRecord) :
                    \E l \in Range(DictGet(medicalRecord, c)) : l[valType] = maxValue}
        c == SmallestCode(tied)
    IN  /\ Len(Selected(mode)) = 1
        /\ Selected(mode)[1][1] = c
        /\ Len(Selected(mode)[1][2]) = 1
        /\ Selected(mode)[1][2][1] \in Range(DictGet(medicalRecord, c))
        /\ Selected(mode)[1][2][1][valType] = maxValue

C8_MaxTieBreak ==
    (pc = "selected" /\ medicalRecord # <<>>) =>
        /\ "max1" \in Range(modes) =>
               modeMedicalRecords.exc = "none" /\ MaxSelectionOk("max1", "Val1")
        /\ "max2" \in Range(modes) =>
               modeMedicalRecords.exc = "none" /\ MaxSelectionOk("max2", "Val2")

(* C9: on a record that is not empty, every mode but all returns exactly one
   code with exactly one association, which is one of the record's
   associations of that code; all returns the record, each code with its
   list of associations in the same order. *)
C9_SelectionShape ==
    (pc = "selected" /\ medicalRecord # <<>>) =>
        /\ modeMedicalRecords.exc = "none"
        /\ \A m \in Range(modes) :
            IF m = "all"
            THEN Selected(m) = medicalRecord
            ELSE /\ Len(Selected(m)) = 1
                 /\ Selected(m)[1][1] \in DictKeys(medicalRecord)
                 /\ Len(Selected(m)[1][2]) = 1
                 /\ Selected(m)[1][2][1] \in
                        Range(DictGet(medicalRecord, Selected(m)[1][1]))

(* Every mode was applied to a record of two codes, one with two associations. *)
C9_Witness ==
    /\ pc = "selected"
    /\ modes = AllModes
    /\ Len(medicalRecord) = 2
    /\ Len(medicalRecord[1][2]) = 2
    /\ modeMedicalRecords.exc = "none"

Occurrences(values, x) == Cardinality({n \in 1..Len(values) : values[n] = x})
(* The values in ascending order. *)
Ascending(values) ==
    CHOOSE v \in [1..Len(values) -> Range(values)] :
        /\ \A n \in 1..(Len(v) - 1) : v[n] <= v[n + 1]
        /\ \A x \in Range(values) : Occurrences(v, x) = Occurrences(values, x)
(* A hundred times the median of the values: v[(n-1)/2] of an odd number n of
   values v[0..n-1], (v[n/2-1] + v[n/2]) / 2 of an even number. *)
MedianHundredths(values) ==
    LET v == Ascending(values)
        n == Len(v)
    IN  IF n % 2 = 1 THEN 100 * v[(n - 1) \div 2 + 1]
        ELSE 50 * (v[n \div 2] + v[n \div 2 + 1])
MedianField == IF outputName = "median1" THEN "Val1" ELSE "Val2"

(* C11: of a record that is not empty, the median output is the middle value
   of the chosen field's values in ascending order when their number is odd,
   the mean of the two middle values when it is even, to two decimals. *)
C11_MedianOfSortedValues ==
    (pc = "output" /\ record # <<>> /\ outputName \in {"median1", "median2"}) =>
        outputValue = Ok(Format2f(MedianHundredths(ValuesOf(MedianField, Flatten(record)))))

(* The median was asked of four values, the two in the middle different. *)
C11_Witness ==
    /\ pc = "output"
    /\ outputName = "median1"
    /\ Len(Flatten(record)) = 4
    /\ LET v == Ascending(ValuesOf("Val1", Flatten(record))) IN v[2] # v[3]
    /\ outputValue.exc = "none"

(* C12: the predicate date_generator(start, end) returns accepts start, end
   and every date between them, rejects every date before start or after
   end, and accepts no date at all when end is before start. *)
C12_DateRangeInclusive ==
    (pc = "compared" /\ comparator.kind = "date") =>
        /\ (comparator.startDate <= tested /\ tested <= comparator.endDate) => accepted
        /\ (tested < comparator.startDate \/ tested > comparator.endDate) => ~accepted
        /\ comparator.endDate < comparator.startDate => ~accepted

(* The end date of a range of several days was accepted. *)
C12_Witness ==
    /\ pc = "compared"
    /\ comparator.kind = "date"
    /\ comparator.startDate < comparator.endDate
    /\ tested = comparator.endDate
    /\ accepted

(* C13: the predicate value_generator(reference, op) returns accepts x exactly
   when x op reference holds, x on the left and the reference on the right. *)
C13_TestedValueOnLeft ==
    (pc = "compared" /\ comparator.kind = "value") =>
        accepted = CASE comparator.comparison = "<" -> tested < comparator.comparatorValue
                     [] comparator.comparison = "<=" -> tested <= comparator.comparatorValue
                     [] comparator.comparison = ">" -> tested > comparator.comparatorValue
                     [] comparator.comparison = ">=" -> tested >= comparator.comparatorValue

(* A value under the reference was accepted by the predicate of "<". *)
C13_Witness ==
    /\ pc = "compared"
    /\ comparator.kind = "value"
    /\ comparator.comparison = "<"
    /\ tested < comparator.comparatorValue
    /\ accepted

(* ---- helpers of the case-definition claims ---- *)
(* The line the parser has just read, and the values a stored predicate is
   tried on, in tenths. *)
LastParsed == Lines(annotated)[lineNum]
TestedValues == {0, 10, 20, 25, 30, 40, 50}

(* C14: when the parser accepts a value restriction "# OP valN" that starts
   with its number, the predicate it stores for valN accepts x exactly when
   "# OP x" holds. *)
C14_NumberFirstNormalised ==
    (/\ pc = "parsing"
     /\ lineNum > 0
     /\ Len(LastParsed) = 4
     /\ LastParsed[1] = ">"
     /\ isdigit(LastParsed[2])) =>
        LET stored == CaseDefinition(caseDefinitions, currentCaseDef).Restrictions[LastParsed[4]]
            f == stored[Len(stored)]
        IN  \A x \in TestedValues :
                value_comparator(f, x) = comparison(LastParsed[3], float(LastParsed[2]).val, x)

(* What was written to the annotated file, write by write, without the
   "\n" that ends a write and in lower case; the lines read so far. *)
Written ==
    {[k \in 1..Len(w) |-> Lower(w[k])] :
        w \in {IF u # <<>> /\ u[Len(u)] = "\n" THEN SubSeq(u, 1, Len(u) - 1) ELSE u :
                  u \in Range(annotated)}}
LinesRead == {[k \in 1..Len(fileLines[n]) |-> Lower(fileLines[n][k])] : n \in 1..lineNum}

(* A date restriction, and one that is to be kept: "from d1 to d2" with two
   dates that parse, d2 not before d1, or "from d1" with a date that parses. *)
IsFrom(line) == Len(line) >= 2 /\ line[1] = ">" /\ line[2] = "from"
KeptFrom(line) ==
    \/ /\ Len(line) = 3
       /\ strptime(line[3]).exc = "none"
    \/ /\ Len(line) = 5
       /\ line[4] = "to"
       /\ strptime(line[3]).exc = "none"
       /\ strptime(line[5]).exc = "none"
       /\ strptime(line[3]).val <= strptime(line[5]).val

(* C15: a ">from d1 to d2" line is in the annotated file if and only if both
   dates parse and d2 is not before d1; a date restriction with a reversed
   range, a date that does not parse, a third word that is not "to" or a
   wrong number of words writes nothing, and the reading goes on with the
   next line. *)
C15_DateLineWrittenIffValid ==
    pc \in {"annotating", "annotated", "mapping", "mapped", "crashed"} =>
    /\ \A line \in Written : IsFrom(line) => KeptFrom(line)
    /\ \A line \in LinesRead : (IsFrom(line) /\ KeptFrom(line)) => line \in Written
    /\ (lineNum > 0 /\ IsFrom(fileLines[lineNum])) => pc # "crashed"

(* A mode or an out line, and its words that are valid choices, in order. *)
IsChoice(line) == Len(line) >= 2 /\ line[1] = ">" /\ line[2] \in {"mode", "out"}
ValidTokens(line) ==
    SelectSeq(SubSeq(line, 3, Len(line)),
              LAMBDA t : t \in (IF line[2] = "mode" THEN validModes ELSE validOutputs))

(* C16: for a ">mode" line, and for a ">out" line, the annotated file
   receives a line of exactly the words of the line that are valid choices,
   in their order, and no line at all when the line has no valid choice. *)
C16_ChoiceLineFiltered ==
    pc \in {"annotating", "annotated"} =>
        LET read == [n \in 1..lineNum |->
                        [k \in 1..Len(fileLines[n]) |-> Lower(fileLines[n][k])]]
            kept == SelectSeq(read, LAMBDA l : IsChoice(l) /\ ValidTokens(l) # <<>>)
        IN  SelectSeq(annotated, IsChoice) =
                [k \in 1..Len(kept) |-> <<">", kept[k][2]>> \o ValidTokens(kept[k]) \o <<"\n">>]

(* A code line that ends in %, what is left of it without its sign, its full
   stops and its %, and whether a code of the descriptions starts with that. *)
IsPercent(line) == line # <<>> /\ line[Len(line)] = "%" /\ codeMatcher(line)
Stem(line) == Join(SelectSeq(line, LAMBDA c : c \notin {"-", ".", "%"}))
Unmatched(line) == \A i \in DictKeys(mapCodeToDescription) : ~HasPrefix(i, Stem(line))

(* C17: a code line with a trailing % whose prefix matches no code of the
   descriptions adds the code without its % to the positive codes of the
   current case (to the negative ones when the line starts with -). *)
C17_UnmatchedPercentKept ==
    (/\ pc \in {"annotating", "mapping"}
     /\ lineNum > 0
     /\ IsPercent(fileLines[lineNum])
     /\ Unmatched(fileLines[lineNum])) =>
        LET line == fileLines[lineNum]
            codes == IF pc = "annotating" THEN currentCaseCodes
                     ELSE IF currentCondition \in DOMAIN mapConditionToCode
                     THEN mapConditionToCode[currentCondition]
                     ELSE [Positive |-> {}, Negative |-> {}]
        IN  Stem(line) \in (IF line[1] = "-" THEN codes.Negative ELSE codes.Positive)

(* A header; a code line that starts with -, and the codes it stands for. *)
IsHeader(line) == line # <<>> /\ line[1] = "#"
IsNegated(line) == Len(line) >= 2 /\ line[1] = "-" /\ codeMatcher(line) /\ Stem(line) # ""
CodesOf(line) ==
    IF IsPercent(line) /\ ~Unmatched(line)
    THEN {i \in DictKeys(mapCodeToDescription) : HasPrefix(i, Stem(line))}
    ELSE {Stem(line)}

(* C18: every code line of a case of the raw file that starts with - puts
   its code, or the codes it expands to, among the negative codes of a case
   definition the parser builds from the annotated file. *)
C18_NegativeCodesRoundTrip ==
    pc = "parsed" =>
        \A n \in 1..Len(fileLines) :
            (IsNegated(fileLines[n]) /\ \E m \in 1..(n - 1) : IsHeader(fileLines[m])) =>
                \A c \in CodesOf(fileLines[n]) :
                    \E k \in 1..Len(caseDefinitions) : c \in caseDefinitions[k][2].Negative

(* The line of the header the n-th line of the file is under (0 when it is
   under none), and the name conditon_code_mappings gives the condition of
   that header. *)
HeaderOf(n) ==
    LET headers == {m \in 1..n : IsHeader(fileLines[m])}
    IN  IF headers = {} THEN 0 ELSE CHOOSE m \in headers : \A j \in headers : j <= m
ConditionOf(n) == Join(SubWhitespace(LStrip(Tail(fileLines[HeaderOf(n)])), "_"))

(* The lines of the file that give the condition i a date restriction with
   two dates in order. *)
DateLinesOf(i) ==
    {n \in 1..Len(fileLines) :
        /\ HeaderOf(n) > 0
        /\ ConditionOf(n) = i
        /\ IsFrom(fileLines[n])
        /\ Len(fileLines[n]) = 5
        /\ KeptFrom(fileLines[n])}

(* C19: when a name is that of several headers of the file, what is given
   under every one of them belongs to the one resulting definition: each of
   its date restrictions is among the restrictions of the definition, each of
   its codes among the codes, and a later header of the same name resets
   nothing. *)
C19_RepeatedNameAccumulates ==
    pc = "mapped" =>
        /\ \A i \in DOMAIN conditionData :
               Len(DictGet(conditionData[i].Restrictions, "Date")) >= Cardinality(DateLinesOf(i))
        /\ \A n \in 1..Len(fileLines) :
               (HeaderOf(n) > 0 /\ fileLines[n] \in {<<"A1">>, <<"-", "B">>}) =>
                   /\ ConditionOf(n) \in DOMAIN mapConditionToCode
                   /\ Stem(fileLines[n]) \in
                          (IF fileLines[n][1] = "-"
                           THEN mapConditionToCode[ConditionOf(n)].Negative
                           ELSE mapConditionToCode[ConditionOf(n)].Positive)

(* The name the parser gives the case definition of a header, and the first
   line of the file it reads that is a header of a given name. *)
CaseNameOf(line) == Join(SubWhitespace(SubSeq(line, 3, Len(line)), "_"))
FirstHeaderOf(name) ==
    LET file == Lines(annotated)
        headers == {n \in 1..Len(file) : IsHeader(file[n]) /\ CaseNameOf(file[n]) = name}
    IN  CHOOSE n \in headers : \A m \in headers : n <= m

(* C20: the list of names the parser returns holds the name of every header
   of the file once, in the order of first appearance, and its members are
   exactly the keys of the mapping it returns. *)
C20_OrderListMatchesMapping ==
    pc = "parsed" =>
        LET file == Lines(annotated)
            named == {CaseNameOf(file[n]) : n \in {m \in 1..Len(file) : IsHeader(file[m])}}
        IN  /\ \A j \in 1..Len(caseDefsOrder) : \A k \in 1..Len(caseDefsOrder) :
                   j < k => caseDefsOrder[j] # caseDefsOrder[k]
            /\ Range(caseDefsOrder) = named
            /\ \A j \in 1..Len(caseDefsOrder) : \A k \in 1..Len(caseDefsOrder) :
                   (j < k /\ caseDefsOrder[j] # caseDefsOrder[k]) =>
                       FirstHeaderOf(caseDefsOrder[j]) < FirstHeaderOf(caseDefsOrder[k])
            /\ DictKeys(caseDefinitions) = Range(caseDefsOrder)

(* The valid choices the file the parser reads gives the case definition of
   a name on its lines of a kind ("mode" or "out"): those of the lines under
   a header of that name. *)
ChoicesGiven(name, kind) ==
    LET file == Lines(annotated)
        CaseAt(n) ==
            LET headers == {m \in 1..n : IsHeader(file[m])}
            IN  IF headers = {} THEN ""
                ELSE CaseNameOf(file[CHOOSE m \in headers : \A j \in headers : j <= m])
    IN  UNION {Range(ValidTokens(file[n])) :
                  n \in {m \in 1..Len(file) :
                            IsChoice(file[m]) /\ file[m][2] = kind /\ CaseAt(m) = name}}

(* C21: after the parse every case named in the list of names has, in the
   mapping, a list of modes and a list of outputs that are not empty: the
   modes are exactly [all] when no valid mode was given for the case, the
   outputs exactly [count] when no valid output was given. *)
C21_DefaultModesAndOutputs ==
    pc = "parsed" =>
        \A k \in 1..Len(caseDefsOrder) :
            LET name == caseDefsOrder[k]
            IN  /\ name \in DictKeys(caseDefinitions)
                /\ LET entry == DictGet(caseDefinitions, name)
                   IN  /\ Len(entry.Modes) > 0
                       /\ Len(entry.Outputs) > 0
                       /\ ChoicesGiven(name, "mode") = {} => entry.Modes = <<"all">>
                       /\ ChoicesGiven(name, "out") = {} => entry.Outputs = <<"count">>

(* C22: the name of the case a header "#<name>" declares is <name> without
   the whitespace around it and with "_" for every run of whitespace, no
   other character lost, whether or not a space follows the #. *)
C22_CanonicalCaseName ==
    (pc = "parsing" /\ lineNum > 0 /\ IsHeader(LastParsed)) =>
        currentCaseDef = Join(SubWhitespace(LStrip(Tail(LastParsed)), "_"))

(* A line of a raw file that is to be skipped: a control line that is no
   mode or out line with a valid choice, no date restriction to be kept and
   no value restriction "# OP valN", "# OP valN OP #" or "valN OP #"; or a
   line that is no header, no control line and no code. *)
IsMalformed(raw) ==
    LET line == [k \in 1..Len(raw) |-> Lower(raw[k])]
        n == Len(line) - 1
        IsNumber(t) == float(t).exc = "none"
        IsName(t) == t \in {"val1", "val2"}
    IN  /\ line # <<>>
        /\ line[1] # "#"
        /\ IF line[1] = ">"
           THEN ~ \/ IsChoice(line) /\ ValidTokens(line) # <<>>
                  \/ IsFrom(line) /\ KeptFrom(line)
                  \/ /\ n \in {3, 5}
                     /\ IsNumber(line[2]) /\ line[3] \in validOperators /\ IsName(line[4])
                     /\ n = 5 => (line[5] \in validOperators /\ IsNumber(line[6]))
                  \/ /\ n = 3
                     /\ IsName(line[2]) /\ line[3] \in validOperators /\ IsNumber(line[4])
           ELSE ~codeMatcher(line)

(* C23: reading a raw file never raises, whatever its lines: a line that is
   to be skipped writes nothing, leaves the codes of the current case and
   what was written before as they were, and the lines after it are read. *)
C23_MalformedLineSkipped ==
    [][(pc \in {"annotating", "mapping"} /\ lineNum' = lineNum + 1) =>
           /\ pc' = pc
           /\ raised' = "none"
           /\ IsMalformed(fileLines[lineNum + 1]) =>
                  /\ annotated' = annotated
                  /\ currentCaseCodes' = currentCaseCodes
                  /\ mapConditionToCode' = mapConditionToCode]_vars

(* A value restriction that starts with its number and is validly
   formatted: "# OP valN" or "# OP valN OP #", in lower case. *)
IsNumberFirst(line) ==
    /\ Len(line) \in {4, 6}
    /\ line[1] = ">"
    /\ float(line[2]).exc = "none"
    /\ line[3] \in validOperators
    /\ line[4] \in {"val1", "val2"}
    /\ Len(line) = 6 => (line[5] \in validOperators /\ float(line[6]).exc = "none")

(* C24: for a validly formatted value restriction that starts with its
   number the annotator writes "ValN OP' #", OP' being OP with < and >
   exchanged, and after it "ValN OP2 #2" for the form of five words; read as
   "x OP #", the lines written accept x exactly when the line read does. *)
C24_NumberFirstTurnedRound ==
    [][(/\ pc = "annotating"
        /\ lineNum' = lineNum + 1
        /\ IsNumberFirst([k \in 1..Len(fileLines[lineNum + 1]) |->
                             Lower(fileLines[lineNum + 1][k])])) =>
           LET line == [k \in 1..Len(fileLines[lineNum + 1]) |-> Lower(fileLines[lineNum + 1][k])]
               written == SubSeq(annotated', Len(annotated) + 1, Len(annotated'))
               name == IF line[4] = "val1" THEN "Val1" ELSE "Val2"
               flipped == CASE line[3] = "<" -> ">"
                            [] line[3] = "<=" -> ">="
                            [] line[3] = ">" -> "<"
                            [] line[3] = ">=" -> "<="
           IN  /\ written =
                      << <<">", name, flipped, line[2], "\n">> >> \o
                      (IF Len(line) = 6 THEN << <<">", name, line[5], line[6], "\n">> >>
                       ELSE <<>>)
               /\ \A x \in TestedValues :
                      (\A k \in 1..Len(written) :
                           comparison(written[k][3], x, float(written[k][4]).val)) =
                      (/\ comparison(line[3], float(line[2]).val, x)
                       /\ Len(line) = 6 => comparison(line[5], x, float(line[6]).val))]_vars

(* A restriction "# OP valN OP #" has just been annotated as two lines. *)
C24_Witness ==
    /\ pc = "annotating"
    /\ lineNum > 0
    /\ Len(fileLines[lineNum]) = 6
    /\ IsNumberFirst(fileLines[lineNum])
    /\ Len(annotated) >= 2
    /\ annotated[Len(annotated) - 1][2] = "Val2"
    /\ annotated[Len(annotated)][2] = "Val2"

(* C25: the parser recognises every control line the annotator writes: it
   does not raise on it, a restriction line gives the current case one more
   restriction under the attribute it names, and the words of a mode or an
   out line are among the modes or the outputs of the current case. *)
C25_AnnotatedLinesRecognised ==
    [][(/\ pc = "parsing"
        /\ fileLines # <<>>
        /\ lineNum' = lineNum + 1
        /\ Lines(annotated)[lineNum + 1][1] = ">") =>
           LET line == Lines(annotated)[lineNum + 1]
               before == CaseDefinition(caseDefinitions, currentCaseDef)
               after == CaseDefinition(caseDefinitions', currentCaseDef')
               attribute == CASE line[2] = "from" -> "Date"
                              [] line[2] = "Val1" -> "v1"
                              [] line[2] = "Val2" -> "v2"
           IN  /\ pc' = "parsing"
               /\ line[2] \in {"from", "Val1", "Val2"} =>
                      Len(after.Restrictions[attribute]) =
                          Len(before.Restrictions[attribute]) + 1
               /\ line[2] = "mode" => Range(SubSeq(line, 3, Len(line))) \subseteq after.Modes
               /\ line[2] = "out" => Range(SubSeq(line, 3, Len(line))) \subseteq after.Outputs]_vars


(* C26: the reduced record of every mode of a case holds occurrences of the
   case's positive indicator codes that the patient has, and of no other
   code. *)
C26_OnlyPositiveCodesSelected ==
    (pc \in {"row", "crashed"} /\ patientRecordSubset.exc = "none") =>
        \A i \in DOMAIN patientRecordSubset.val :
            \A mode \in DOMAIN patientRecordSubset.val[i] :
                DictKeys(patientRecordSubset.val[i][mode]) \subseteq
                    (DictKeys(medicalRecord) \cap mapConditionToCode[i].Positive)

(* --------- patient_extraction.main, case by case, with its objects ----- *)
(* The dicts and lists of the interpreter live at the addresses of heap: a
   dict is held as its <<key, address of the value>> pairs in insertion order,
   a list as its associations.  Creating an object appends it to the heap;
   binding a name to an object, or putting it into a new dict, shares its
   address.  The association dicts are read only and are held by value. *)
Deref(h, at) == [n \in 1..Len(h[at]) |-> <<h[at][n][1], h[h[at][n][2]]>>]

(* Line 103, json.loads(chunks[1]): one list per code, then the dict. *)
LoadRecord(r) ==
    [n \in 1..Len(r) |-> r[n][2]] \o <<[n \in 1..Len(r) |-> <<r[n][1], n>>]>>

(* Line 256 building each list last association first. *)
HeapRestrict_Reversed(h, at, i, j) ==
    [heap |-> h \o [n \in 1..Len(h[at]) |->
                       LET kept == SelectSeq(h[h[at][n][2]], LAMBDA l : Call(j, l[i]))
                       IN  [m \in 1..Len(kept) |-> kept[Len(kept) + 1 - m]]]
                \o <<[n \in 1..Len(h[at]) |-> <<h[at][n][1], Len(h) + n>>]>>,
     at |-> Len(h) + Len(h[at]) + 1]

(* Line 256 filtering the lists of the record in place. *)
HeapRestrict_InPlace(h, at, i, j) ==
    [heap |-> [x \in 1..Len(h) |->
                  IF \E n \in 1..Len(h[at]) : h[at][n][2] = x
                  THEN SelectSeq(h[x], LAMBDA l : Call(j, l[i]))
                  ELSE h[x]],
     at |-> at]

(* Line 256: the comprehension builds a new list for every key, and a new
   dict of them that selectedRecords is then bound to. *)
HeapRestrict(h, at, i, j) ==
    [heap |-> h \o [n \in 1..Len(h[at]) |->
                       SelectSeq(h[h[at][n][2]], LAMBDA l : Call(j, l[i]))]
                \o <<[n \in 1..Len(h[at]) |-> <<h[at][n][1], Len(h) + n>>]>>,
     at |-> Len(h) + Len(h[at]) + 1]

(* Lines 251-256: every restriction j of every attribute i, in turn. *)
RECURSIVE HeapRestrictAll(_, _, _)
HeapRestrictAll(h, at, pairs) ==
    IF pairs = <<>> THEN [heap |-> h, at |-> at]
    ELSE LET step == HeapRestrict(h, at, pairs[1][1], pairs[1][2])
         IN  HeapRestrictAll(step.heap, step.at, Tail(pairs))

(* Lines 262-308: the loop over the modes.  Lines 276-277 (and their like)
   each build a dict and a list of the one association; line 306 copies the
   dict and shares its lists. *)
RECURSIVE HeapModeLoop(_, _, _, _)
HeapModeLoop(h, at, modeList, result) ==
    IF modeList = <<>> THEN [exc |-> "none", heap |-> h, val |-> result]
    ELSE LET mode == modeList[1]
             values == Deref(h, at)
         IN  IF mode \in {"earliest", "latest", "max", "min"}
             THEN IF values = <<>> THEN [exc |-> "ValueError", heap |-> h, val |-> result]
                  ELSE LET chosen ==
                               CASE mode = "earliest" -> values[PyMin(FirstDates(values))]
                                 [] mode = "latest" -> values[PyMax(LastDates(values))]
                                 [] mode = "max" -> values[PyMax(FirstValues(values))]
                                 [] mode = "min" -> values[PyMin(FirstValues(values))]
                           one == <<chosen[2][1]>>
                           grown == h \o <<one, <<<<chosen[1], Len(h) + 1>>>>,
                                           one, <<<<chosen[1], Len(h) + 3>>>>>>
                       IN  HeapModeLoop(grown, Len(h) + 2, Tail(modeList),
                                        MapPut(result, mode, Len(h) + 4))
             ELSE HeapModeLoop(Append(h, h[at]), at, Tail(modeList),
                               MapPut(result, mode, Len(h) + 1))

(* Lines 247-308 on the record at address at: the heap the call leaves and the
   address of the dict of each mode, or the exception. *)
HeapSelect(h, at, restrictions, modeList) ==
    LET copy == Append(h, h[at])
        pairs == FlattenSeqs([n \in 1..Len(restrictions) |->
                     [m \in 1..Len(restrictions[n][2]) |->
                         <<restrictions[n][1], restrictions[n][2][m]>>]])
        restricted == HeapRestrictAll(copy, Len(copy), pairs)
        kept == Append(restricted.heap,
                       SelectSeq(restricted.heap[restricted.at],
                                 LAMBDA x : restricted.heap[x[2]] # <<>>))
    IN  HeapModeLoop(kept, Len(kept), modeList, EmptyMap)

(* The modes of a condition: the string conditon_code_mappings stores, or the
   list the docstring of select_associations describes. *)
CaseData == [Mode : StoredModes \cup ModeLists, Out : {<<"date">>},
             Restrictions : DriverRestrictionSets]

(* Lines 100-110: the patient's line is loaded. *)
InitCases ==
    /\ pc = "loaded"
    /\ conditionsFound \in ConditionOrders
    /\ \E codes \in K1Codes, data \in CaseData :
        /\ mapConditionToCode =
               [i \in Range(conditionsFound) |-> IF i = "K1" THEN codes ELSE K2Codes]
        /\ conditionData =
               [i \in Range(conditionsFound) |-> IF i = "K1" THEN data ELSE K2Data]
    /\ \E sh \in SmallShapes : medicalRecord \in RecordsOfShape(DriverAssociation, sh)
    /\ heap = LoadRecord(medicalRecord)
    /\ caseNum = 0
    /\ modes = <<>>
    /\ IdleSelector /\ IdleOutputter /\ IdleSelect /\ IdleDriver
    /\ IdleComparator /\ IdleFiles /\ IdleGenerator

(* Lines 112-132: one turn of the loop over conditionsFound.  medicalRecord
   names the dict json.loads built, at address Len(medicalRecord) + 1. *)
EvaluateCase ==
    /\ pc = "loaded"
    /\ caseNum < Len(conditionsFound)
    /\ LET i == conditionsFound[caseNum + 1]
           at == Len(medicalRecord) + 1
           codesAssociatedWith == DictKeys(Deref(heap, at))
           patientPosCondCodes == codesAssociatedWith \cap mapConditionToCode[i].Positive
           patientNegCondCodes == codesAssociatedWith \cap mapConditionToCode[i].Negative
           result == HeapSelect(heap, at, conditionData[i].Restrictions,
                                conditionData[i].Mode)
           chosen == [j \in {m \in DOMAIN result.val :
                                 result.heap[result.val[m]] # <<>>} |->
                         Deref(result.heap, result.val[j])]
       IN  IF ~HasCondition(patientPosCondCodes, patientNegCondCodes)
           THEN UNCHANGED <<pc, heap, patientRecordSubset>>
           ELSE /\ heap' = result.heap
                /\ pc' = IF result.exc # "none" THEN "crashed" ELSE "loaded"
                /\ patientRecordSubset' =
                       IF result.exc # "none" THEN Raise(result.exc)
                       ELSE IF chosen = EmptyMap THEN patientRecordSubset
                       ELSE Ok(MapPut(patientRecordSubset.val, i, chosen))
    /\ caseNum' = caseNum + 1
    /\ UNCHANGED <<medicalRecord, modes, selectorVars, outputterVars, selectVars, ruleVars,
                   header, generatedOutput, comparatorVars, fileVars, generatorVars>>

(* Line 135: the loop is over. *)
EndCases ==
    /\ pc = "loaded"
    /\ caseNum = Len(conditionsFound)
    /\ pc' = "evaluated"
    /\ UNCHANGED <<medicalRecord, modes, selectorVars, outputterVars, selectVars, ruleVars,
                   driverVars, textVars>>

NextCases == EvaluateCase \/ EndCases

SpecCases == InitCases /\ [][NextCases]_vars

(* The loop over the conditions builds what PatientRecordSubset computes. *)
CasesAgree ==
    pc \in {"evaluated", "crashed"} =>
        patientRecordSubset =
            PatientRecordSubset(medicalRecord, conditionsFound, mapConditionToCode,
                                conditionData)

(* C27: restriction filtering and mode selection leave the patient's record
   as it was loaded, the dict and every list of it, so every condition of the
   rule set reads the same record. *)
C27_RecordUnchanged ==
    pc \in {"loaded", "evaluated", "crashed"} =>
        /\ SubSeq(heap, 1, Len(medicalRecord) + 1) = LoadRecord(medicalRecord)
        /\ Deref(heap, Len(medicalRecord) + 1) = medicalRecord

(* Two conditions have each selected from the record, one of them through a
   restriction that removed an association. *)
C27_Witness ==
    /\ pc = "evaluated"
    /\ DOMAIN patientRecordSubset.val = {"K1", "K2"}
    /\ RestrictedRecords(medicalRecord, conditionData["K1"].Restrictions) # medicalRecord
    /\ "earliest" \in DOMAIN patientRecordSubset.val["K1"]
    /\ Len(heap) > Len(medicalRecord) + 1

(* ---- helpers of the order claim ---- *)
EveryListChronological(d) == \A n \in 1..Len(d) : IsChronological(d[n][2])

(* C28: when every list of the loaded record is non-decreasing by date, so is
   every list of the record filtered for a condition, which is the result of
   mode all, and of what all_selector makes of it. *)
C28_OrderKept ==
    (pc \in {"loaded", "evaluated"} /\ EveryListChronological(medicalRecord)) =>
        \A i \in DOMAIN patientRecordSubset.val :
            \A mode \in DOMAIN patientRecordSubset.val[i] :
                /\ EveryListChronological(patientRecordSubset.val[i][mode])
                /\ EveryListChronological(all_selector(patientRecordSubset.val[i][mode]).val)

(* Two associations of different dates both met the restriction of a
   condition selected under mode all. *)
C28_Witness ==
    /\ pc = "evaluated"
    /\ "K1" \in DOMAIN patientRecordSubset.val
    /\ conditionData["K1"].Mode = <<"all">>
    /\ \E n \in 1..Len(conditionData["K1"].Restrictions) :
           conditionData["K1"].Restrictions[n][2] # <<>>
    /\ \E n \in 1..Len(patientRecordSubset.val["K1"]["all"]) :
           LET list == patientRecordSubset.val["K1"]["all"][n][2]
           IN  Len(list) = 2 /\ list[1].Date < list[2].Date

(* ------------------ GenerateDataFiles/generate_flat_files.py ------------ *)
(* A line of journal.sql is a sequence of pieces: "insert(" stands for the 75
   characters of SQL before the values of a row and ");\n" for the three
   after them; "," "'" and "\"" are those characters, and any other piece is a
   run of characters with no comma and no quote in it. *)
QuoteChars == {"'", "\""}

(* Lines 95-111: the row read character by character. *)
RECURSIVE SplitChars(_, _, _, _)
SplitChars(chars, entries, currentEntry, inQuoteBlock) ==
    IF chars = <<>> THEN Append(entries, currentEntry)
    ELSE LET i == chars[1] IN
         IF i = "," /\ ~inQuoteBlock
         THEN SplitChars(Tail(chars), Append(entries, currentEntry), <<>>, inQuoteBlock)
         ELSE IF i \in QuoteChars
         THEN SplitChars(Tail(chars), entries, currentEntry, ~inQuoteBlock)
         ELSE SplitChars(Tail(chars), entries, Append(currentEntry, i), inQuoteBlock)

(* Lines 85-111: the entries of an insert line. *)
Entries(line) == SplitChars(SubSeq(line, 2, Len(line) - 1), <<>>, <<>>, FALSE)

(* entries[1].split(',')[0] *)
RECURSIVE UpToComma(_)
UpToComma(chars) ==
    IF chars = <<>> \/ chars[1] = "," THEN <<>>
    ELSE <<chars[1]>> \o UpToComma(Tail(chars))

(* sorted(associations, key=operator.itemgetter("Date")) without the sort. *)
SortedByDate_AsRead(associations) == associations

(* sorted(associations, key=operator.itemgetter("Date")): stable. *)
RECURSIVE SortedByDate(_)
SortedByDate(associations) ==
    IF associations = <<>> THEN <<>>
    ELSE LET n == CHOOSE m \in 1..Len(associations) :
                      /\ \A l \in 1..Len(associations) :
                             associations[m].Date <= associations[l].Date
                      /\ \A l \in 1..(m - 1) : associations[l].Date > associations[m].Date
         IN  <<associations[n]>> \o
             SortedByDate([l \in 1..(Len(associations) - 1) |->
                              IF l < n THEN associations[l] ELSE associations[l + 1]])

(* Lines 148-158: the line save_patient appends to PatientData.tsv, its two
   fields kept apart, or the exception "{0:s}".format raises. *)
save_patient(patientID, data) ==
    IF patientID = "None" THEN Raise("TypeError")
    ELSE Ok(<<patientID,
              [n \in 1..Len(data) |->
                  <<data[n][1],
                    LET inOrder == SortedByDate(data[n][2])
                    IN  [l \in 1..Len(inOrder) |->
                            [inOrder[l] EXCEPT !.Date = strftime(inOrder[l].Date)]]>>]>>)

(* patientData[code].append(association) on a defaultdict(list) *)
AppendUnder(data, code, association) ==
    IF code \in DictKeys(data)
    THEN [n \in 1..Len(data) |->
             IF data[n][1] = code THEN <<code, Append(data[n][2], association)>> ELSE data[n]]
    ELSE Append(data, <<code, <<association>>>>)

(* Lines 83-127 for one line of the file: what is appended to PatientData.tsv,
   the current patient and the patient's data after it, or the exception. *)
read_line(line, current, data) ==
    IF line[1] # "insert(" THEN [exc |-> "none", saved |-> <<>>, current |-> current, data |-> data]
    ELSE LET entries == Entries(line)
             Failed(e) == [exc |-> e, saved |-> <<>>, current |-> current, data |-> data]
         IN  IF Len(entries) < 3 THEN Failed("IndexError")
             ELSE LET patientID == Join(entries[1])
                      code == Join(UpToComma(entries[2]))
                      date == strptime(Join(entries[3]))
                  IN  IF date.exc # "none" THEN Failed(date.exc)
                      ELSE IF Len(entries) < 4 THEN Failed("IndexError")
                      ELSE IF float(Join(entries[4])).exc # "none" THEN Failed("ValueError")
                      ELSE IF Len(entries) < 5 THEN Failed("IndexError")
                      ELSE IF float(Join(entries[5])).exc # "none" THEN Failed("ValueError")
                      ELSE IF Len(entries) < 6 THEN Failed("IndexError")
                      ELSE LET association ==
                                   [Date |-> date.val,
                                    Val1 |-> float(Join(entries[4])).val,
                                    Val2 |-> float(Join(entries[5])).val,
                                    Text |-> IF Join(entries[6]) # "null"
                                             THEN Join(entries[6]) ELSE ""]
                               changed == patientID # current /\ current \notin {"None", ""}
                           IN  [exc |-> "none",
                                saved |-> IF changed THEN <<save_patient(current, data).val>>
                                          ELSE <<>>,
                                current |-> patientID,
                                data |-> AppendUnder(IF changed THEN <<>> ELSE data,
                                                     code, association)]

(* The rows of the model.  A code is quoted and may carry its values after a
   comma; the free text is null or quoted, with commas and with a double quote
   inside the single quotes. *)
Row(patient, code, date, text) ==
    <<"insert(", patient, ",", "'">> \o code \o
    <<"'", ",", "'", date, "'", ",", "0", ",", "2.5", ",">> \o text \o <<");\n">>
PlainCodes == {<<"A">>, <<"B">>}
JournalThemes ==
    {{Row(p, c, "2000-01-01", <<"null">>) : p \in {"P1", "P2"}, c \in PlainCodes} \cup
         {<<"commit;\n">>},
     {Row(p, c, d, <<"null">>) :
          p \in {"P1", "P2"}, c \in {<<"A">>, <<"A", ",", "v=130", ",", "w=80">>},
          d \in {"2000-01-01", "2000-01-02"}},
     {Row(p, <<"A">>, "2000-01-01", t) :
          p \in {"P1", "P2"},
          t \in {<<"'", "x", "'">>, <<"'", "x", ",", "y", "'">>,
                 <<"'", "x", "\"", "y", ",", "z", "'">>}}}

InitGenerator ==
    /\ pc = "reading"
    /\ \E theme \in JournalThemes, n \in 0..MaxLines : journal \in [1..n -> theme]
    /\ rowNum = 0
    /\ currentPatient = "None"
    /\ patientData = <<>>
    /\ filePatientData = <<>>
    /\ medicalRecord = <<>>
    /\ modes = <<>>
    /\ IdleSelector /\ IdleOutputter /\ IdleSelect /\ IdleRules /\ IdleDriver
    /\ IdleComparator /\ IdleFiles /\ IdleHeap

(* Lines 82-127: the next line of journal.sql. *)
ReadRow ==
    /\ pc = "reading"
    /\ rowNum < Len(journal)
    /\ LET turn == read_line(journal[rowNum + 1], currentPatient, patientData)
       IN  /\ filePatientData' = filePatientData \o turn.saved
           /\ currentPatient' = turn.current
           /\ patientData' = turn.data
           /\ pc' = IF turn.exc # "none" THEN "generator crashed" ELSE "reading"
    /\ rowNum' = rowNum + 1
    /\ UNCHANGED <<medicalRecord, modes, selectorVars, outputterVars, selectVars, ruleVars,
                   driverVars, comparatorVars, fileVars, heapVars, journal>>

(* Line 130: the last patient is saved when the file is at its end. *)
EndJournal ==
    /\ pc = "reading"
    /\ rowNum = Len(journal)
    /\ LET last == save_patient(currentPatient, patientData)
       IN  /\ filePatientData' =
                  IF last.exc # "none" THEN filePatientData
                  ELSE Append(filePatientData, last.val)
           /\ pc' = IF last.exc # "none" THEN "generator crashed" ELSE "generated"
    /\ UNCHANGED <<medicalRecord, modes, selectorVars, outputterVars, selectVars, ruleVars,
                   driverVars, comparatorVars, fileVars, heapVars, journal, rowNum,
                   currentPatient, patientData>>

NextGenerator == ReadRow \/ EndJournal

SpecGenerator == InitGenerator /\ [][NextGenerator]_vars

(* ---- helpers of the generator claims ---- *)
(* The entries of a row when a quoted block runs from an opening quote to the
   next quote of the same kind, the quotes themselves left out. *)
RECURSIVE QuotedSplit(_, _, _, _)
QuotedSplit(chars, done, current, open) ==
    IF chars = <<>> THEN Append(done, current)
    ELSE LET i == chars[1] IN
         IF open = ""
         THEN IF i = "," THEN QuotedSplit(Tail(chars), Append(done, current), <<>>, "")
              ELSE IF i \in QuoteChars THEN QuotedSplit(Tail(chars), done, current, i)
              ELSE QuotedSplit(Tail(chars), done, Append(current, i), "")
         ELSE IF i = open THEN QuotedSplit(Tail(chars), done, current, "")
              ELSE QuotedSplit(Tail(chars), done, Append(current, i), open)
FieldsOf(line) == QuotedSplit(SubSeq(line, 2, Len(line) - 1), <<>>, <<>>, "")
WithoutQuotes(chars) == SelectSeq(chars, LAMBDA c : c \notin QuoteChars)

InsertRows == {n \in 1..Len(journal) : journal[n][1] = "insert("}
PatientOf(n) == Join(FieldsOf(journal[n])[1])
RowCode(n) == Join(UpToComma(FieldsOf(journal[n])[2]))
RowDate(n) == Join(FieldsOf(journal[n])[3])
RowsOfPatient(p) == {n \in InsertRows : PatientOf(n) = p}
Consecutive ==
    \A a, b, c \in InsertRows :
        (a < b /\ b < c /\ PatientOf(a) = PatientOf(c)) => PatientOf(b) = PatientOf(a)

(* C29: when the rows of each patient are consecutive, the file written at the
   end of the journal has one line for each patient, and the line of a patient
   has, under each code of the patient's rows and no other, one occurrence for
   each of the patient's rows of that code, in non-decreasing date order. *)
C29_OneLinePerPatient ==
    (pc \in {"generated", "generator crashed"} /\ Consecutive) =>
        /\ Len(filePatientData) = Cardinality({PatientOf(n) : n \in InsertRows})
        /\ \A n \in InsertRows :
               \E k \in 1..Len(filePatientData) :
                   LET mine == RowsOfPatient(PatientOf(n))
                       data == filePatientData[k][2]
                   IN  /\ filePatientData[k][1] = PatientOf(n)
                       /\ IsDict(data)
                       /\ DictKeys(data) = {RowCode(m) : m \in mine}
                       /\ \A c \in DictKeys(data) :
                              LET list == DictGet(data, c) IN
                              /\ Len(list) = Cardinality({m \in mine : RowCode(m) = c})
                              /\ \A l \in 1..(Len(list) - 1) :
                                     strptime(list[l].Date).val <= strptime(list[l + 1].Date).val
                              /\ \A d \in {RowDate(m) : m \in mine} :
                                     Cardinality({l \in 1..Len(list) : list[l].Date = d}) =
                                         Cardinality({m \in mine : RowCode(m) = c /\ RowDate(m) = d})
                              /\ \A l \in 1..Len(list) : list[l].Val1 = 0 /\ list[l].Val2 = 25

(* Two patients of three rows: the first has two occurrences of one code, read
   latest first and written earliest first. *)
C29_Witness ==
    /\ pc = "generated"
    /\ Len(journal) = 3
    /\ Len(filePatientData) = 2
    /\ PatientOf(1) = PatientOf(2) /\ RowCode(1) = RowCode(2)
    /\ strptime(RowDate(1)).val > strptime(RowDate(2)).val
    /\ Len(filePatientData[1][2][1][2]) = 2

(* C30: a comma ends an entry exactly when it is outside a quoted block, so a
   row read yields its six entries whatever commas and quotes its quoted code
   and free text hold. *)
C30_CommaInsideQuotesKept ==
    [][(pc = "reading" /\ rowNum' = rowNum + 1 /\ journal[rowNum + 1][1] = "insert(") =>
           LET line == journal[rowNum + 1]
           IN  /\ Len(Entries(line)) = 6
               /\ \A n \in 1..6 : Entries(line)[n] = WithoutQuotes(FieldsOf(line)[n])]_vars
=============================================================================
